---- MODULE Spec2Model ----
(***************************************************************************)
(* Model of subnet-authorityd: the catalog store (cache/db.rs), the        *)
(* fingerprint (cache/hash.rs), the cache actor (cache_manager.rs), the    *)
(* discovery multiplexer (mdns/browser.rs) and the two bounded channels    *)
(* that main.rs puts between them.                                         *)
(*                                                                         *)
(* Strings that the code orders (instance names, RFC 3339 timestamps) are  *)
(* sequences of character codes, compared byte-wise as Rust's str::cmp and *)
(* SQLite's BINARY collation do.  A HashMap is a sequence of <<key,value>> *)
(* pairs with distinct keys: the sequence is the map's iteration order,    *)
(* which the standard library randomises per map, and map equality looks   *)
(* at the set of pairs only.                                               *)
(***************************************************************************)
EXTENDS Integers, Sequences, FiniteSets, TLC

VARIABLES
    db,            \* the services table, rows in rowid order
    hash_value,    \* value held by the fingerprint watch channel
    hash_version,  \* number of values sent on the watch channel
    now,           \* wall clock (Utc::now), in ticks
    ncmds,         \* commands the cache actor has processed
    last,          \* the command processed last, with its reply
    hL,            \* fingerprint development: the entry list given
                   \* (order development: the catalog of the first run)
    hM,            \* fingerprint development: the entry list derived from hL
                   \* (order development: the catalog of the second run)
    hOp,           \* fingerprint development: how hM was derived
    hashL,         \* compute_hash(hL) (order development: published by run 1)
    hashM,         \* compute_hash(hM) (order development: published by run 2)
    mux,           \* run_browser: its position, the event it is sending, the
                   \* descriptor it resolved last
    events,        \* the BrowserEvent channel (multiplexer -> cache manager loop)
    bridge,        \* cache_manager::run: its position and the command it issues
    cmdq,          \* the CacheCommand channel (senders -> cache actor)
    readers,       \* the API handlers: idle, or awaiting the reply to a Get
    replies,       \* the oneshot reply channels, one per sender
    actor,         \* the cache thread: its position and the command in hand
    main,          \* main: serving, joining its tasks after cancellation, exited
    hist,          \* history: the first catalog, the events emitted and
                   \* applied, the commands dequeued, the commands issued
    subs,          \* run_browser: browsed_types, next_idx, the subscriptions
                   \* opened, the type_futures pool, the future in hand, and
                   \* what its receives have completed with
    timer          \* run: maintenance_interval, waiting or elapsed

pipeVars == <<mux, events, bridge, cmdq, readers, replies, actor, main, hist,
              subs, timer>>
vars == <<db, hash_value, hash_version, now, ncmds, last, hL, hM, hOp, hashL, hashM,
          mux, events, bridge, cmdq, readers, replies, actor, main, hist,
          subs, timer>>
actorVars == <<db, hash_value, hash_version, now, ncmds, last>>
hashVars == <<hL, hM, hOp, hashL, hashM>>

----------------------------------------------------------------------------
\* Bounds of the model.

\* commands the cache actor processes in one run
MaxCmds == 2
\* clock ticks after StartTime
MaxTime == 1
\* first clock value; 9 -> 10 changes the length-2 timestamp text in both digits
StartTime == 9
\* longest entry list given to compute_hash in the fingerprint development
MaxLen == 2

\* ttl that convert_service_info gives every entry
DefaultTtl == 4500

----------------------------------------------------------------------------
\* Value sets the inputs are drawn from.

\* instance names, as character codes: "a" and "ab"
NameA == <<97>>
NameB == <<97, 98>>
InstanceNames == {NameA, NameB}
ServiceTypes == {"_http._tcp", "_ssh._tcp"}
Hostnames == {"h1.local.", "h2.local."}
V6Addrs == {"fd00::1", "fd00::2"}
Ports == {8080, 9090}
TxtKeys == {"path", "ver"}
TxtVals == {"x", "y"}
Ttls == {DefaultTtl, 120}

Range(s) == {s[i] : i \in 1..Len(s)}

\* sequences over S without repetition, of length at most n
RECURSIVE InjSeqs(_, _)
InjSeqs(S, n) ==
    IF n = 0 THEN {<<>>}
    ELSE LET shorter == InjSeqs(S, n - 1)
         IN  shorter \cup
             {Append(p[1], p[2]) :
                 p \in {q \in shorter \X S : Len(q[1]) = n - 1 /\ q[2] \notin Range(q[1])}}

\* every reordering of the sequence s
Perms(s) ==
    {[i \in 1..Len(s) |-> s[p[i]]] :
        p \in {q \in InjSeqs(1..Len(s), Len(s)) : Len(q) = Len(s)}}

\* HashMap<String, String> values: pairs with distinct keys, in iteration order
TxtMaps ==
    {t \in InjSeqs(TxtKeys \X TxtVals, Cardinality(TxtKeys)) :
        \A i, j \in 1..Len(t) : i # j => t[i][1] # t[j][1]}

\* HashMap equality (PartialEq): the same key -> value pairs, whatever the order
TxtEq(t1, t2) == Range(t1) = Range(t2)

\* Vec<Ipv6Addr> values
AddrVecs == InjSeqs(V6Addrs, Cardinality(V6Addrs))

\* byte-wise lexicographic order on strings (str::cmp, SQLite BINARY collation)
RECURSIVE StrLess(_, _)
StrLess(s, t) ==
    IF t = <<>> THEN FALSE
    ELSE IF s = <<>> THEN TRUE
    ELSE IF s[1] # t[1] THEN s[1] < t[1]
    ELSE StrLess(Tail(s), Tail(t))

----------------------------------------------------------------------------
\* Timestamps.  DateTime<Utc> is a tick count; its RFC 3339 text is modelled
\* by its two decimal digits (fixed width, most significant first).

to_rfc3339(t) == <<48 + (t \div 10), 48 + (t % 10)>>

parse_from_rfc3339(s) == (s[1] - 48) * 10 + (s[2] - 48)

----------------------------------------------------------------------------
\* shared/src/types.rs: ServiceEntry

ServiceEntry(ty, name, host, addrs, port, txt, first, lastSeen, ttl, alive) ==
    [service_type |-> ty, instance_name |-> name, hostname |-> host,
     addresses |-> addrs, port |-> port, txt |-> txt,
     first_seen |-> first, last_seen |-> lastSeen, ttl |-> ttl, alive |-> alive]

----------------------------------------------------------------------------
\* cache/hash.rs: the fingerprint

\* a projection that lets the ttl through
HashViewWithTtl(s) ==
    <<s.service_type, s.instance_name, s.hostname, s.addresses, s.port, s.txt,
      s.alive, s.ttl>>

\* a projection that forgets the port
HashViewNoPort(s) ==
    <<s.service_type, s.instance_name, s.hostname, s.addresses, s.txt, s.alive>>

\* struct HashView: the serialized fields of one entry, in declaration order;
\* txt is written in the map's iteration order
HashView(s) ==
    <<s.service_type, s.instance_name, s.hostname, s.addresses, s.port, s.txt,
      s.alive>>

\* the indices left in input order
InputOrder(services) == [i \in 1..Len(services) |-> i]

\* place index i behind every index already placed whose name is not greater
RECURSIVE InsertIndex(_, _, _)
InsertIndex(sorted, i, services) ==
    IF sorted = <<>> THEN <<i>>
    ELSE IF StrLess(services[i].instance_name, services[Head(sorted)].instance_name)
         THEN <<i>> \o sorted
         ELSE <<Head(sorted)>> \o InsertIndex(Tail(sorted), i, services)

RECURSIVE SortPrefix(_, _)
SortPrefix(k, services) ==
    IF k = 0 THEN <<>>
    ELSE InsertIndex(SortPrefix(k - 1, services), k, services)

\* indices.sort_by(|a, b| services[a].instance_name.cmp(...)): a stable sort
SortIndices(services) == SortPrefix(Len(services), services)

\* Sha256::digest + hex::encode, taken as injective on the serialized bytes
Sha256Hex(json) == <<"sha256", json>>

compute_hash(services) ==
    LET indices == SortIndices(services)
        views == [k \in 1..Len(indices) |-> HashView(services[indices[k]])]
    IN  Sha256Hex(views)

----------------------------------------------------------------------------
\* cache/db.rs: the catalog store.  A row holds the columns as SQLite keeps
\* them: addresses and txt as JSON text, timestamps as RFC 3339 text, alive as
\* an integer.  Result<T> is Ok(v) or StoreError; Option<T> is <<>> (None) or
\* <<v>> (Some).

Ok(v) == [ok |-> TRUE, val |-> v]
StoreError == [ok |-> FALSE, err |-> "store error"]

\* serde_json::to_string of a Vec or a HashMap: the elements in iteration order
to_json(v) == <<"json", v>>

\* serde_json::from_str into a Vec: the elements in text order
vec_from_json(text) == text[2]

\* serde_json::from_str into a HashMap: the pairs of the text, in whatever
\* iteration order the new map gives them
map_from_json(text) == Perms(text[2])

\* params![...] of upsert_service: the column values written for an entry
EntryToRow(entry) ==
    [instance_name |-> entry.instance_name,
     service_type |-> entry.service_type,
     hostname |-> entry.hostname,
     addresses |-> to_json(entry.addresses),
     port |-> entry.port,
     txt |-> to_json(entry.txt),
     first_seen |-> to_rfc3339(entry.first_seen),
     last_seen |-> to_rfc3339(entry.last_seen),
     ttl |-> entry.ttl,
     alive |-> IF entry.alive THEN 1 ELSE 0]

\* the entries a row can be read as (one per iteration order of its txt map)
row_to_entry(row) ==
    {ServiceEntry(row.service_type, row.instance_name, row.hostname,
                  vec_from_json(row.addresses), row.port, t,
                  parse_from_rfc3339(row.first_seen),
                  parse_from_rfc3339(row.last_seen), row.ttl, row.alive # 0) :
        t \in map_from_json(row.txt)}

\* a comparison that forgets the ttl
service_data_changed_no_ttl(old, new) ==
    \/ old.hostname # new.hostname
    \/ old.addresses # new.addresses
    \/ old.port # new.port
    \/ ~TxtEq(old.txt, new.txt)
    \/ old.alive # new.alive
    \/ old.service_type # new.service_type

service_data_changed(old, new) ==
    \/ old.hostname # new.hostname
    \/ old.addresses # new.addresses
    \/ old.port # new.port
    \/ ~TxtEq(old.txt, new.txt)
    \/ old.ttl # new.ttl
    \/ old.alive # new.alive
    \/ old.service_type # new.service_type

\* WHERE instance_name = ?1 (instance_name is the primary key)
RowIndex(d, name) == {i \in 1..Len(d) : d[i].instance_name = name}

\* an update that also overwrites first_seen
OnConflictReplaceAll(row, excluded) == excluded

\* ON CONFLICT(instance_name) DO UPDATE SET ...: every column but
\* instance_name and first_seen takes the excluded (incoming) value
OnConflictUpdate(row, excluded) ==
    [row EXCEPT !.service_type = excluded.service_type,
                !.hostname = excluded.hostname,
                !.addresses = excluded.addresses,
                !.port = excluded.port,
                !.txt = excluded.txt,
                !.last_seen = excluded.last_seen,
                !.ttl = excluded.ttl,
                !.alive = excluded.alive]

\* upsert_service: the reply and the table afterwards.  `old` is what the
\* SELECT returned (one of ExistingReadings); `fails` is a store error in the
\* SELECT or the INSERT, either of which leaves the table as it was.
upsert_service(d, entry, old, fails) ==
    LET idx == RowIndex(d, entry.instance_name)
        changed == IF old = <<>> THEN TRUE ELSE service_data_changed(old[1], entry)
        written ==
            IF idx = {} THEN Append(d, EntryToRow(entry))
            ELSE [i \in 1..Len(d) |->
                    IF i \in idx THEN OnConflictUpdate(d[i], EntryToRow(entry))
                    ELSE d[i]]
    IN  IF fails THEN [res |-> StoreError, db |-> d]
        ELSE [res |-> Ok(changed), db |-> written]

\* the readings of the existing row that upsert_service's SELECT can return
ExistingReadings(d, name) ==
    IF RowIndex(d, name) = {} THEN {<<>>}
    ELSE {<<e>> : e \in UNION {row_to_entry(d[i]) : i \in RowIndex(d, name)}}

\* a call that deletes the row
mark_dead_delete(d, instance_name, t, fails) ==
    IF fails THEN [res |-> StoreError, db |-> d]
    ELSE [res |-> Ok("unit"),
          db |-> SelectSeq(d, LAMBDA row : row.instance_name # instance_name)]

\* a call that flips the flag instead of clearing it
mark_dead_toggle(d, instance_name, t, fails) ==
    IF fails THEN [res |-> StoreError, db |-> d]
    ELSE [res |-> Ok("unit"),
          db |-> [i \in 1..Len(d) |->
                    IF d[i].instance_name = instance_name
                    THEN [d[i] EXCEPT !.alive = 1 - @, !.last_seen = to_rfc3339(t)]
                    ELSE d[i]]]

\* mark_dead: UPDATE services SET alive = 0, last_seen = now WHERE instance_name = ?
mark_dead(d, instance_name, t, fails) ==
    IF fails THEN [res |-> StoreError, db |-> d]
    ELSE [res |-> Ok("unit"),
          db |-> [i \in 1..Len(d) |->
                    IF d[i].instance_name = instance_name
                    THEN [d[i] EXCEPT !.alive = 0, !.last_seen = to_rfc3339(t)]
                    ELSE d[i]]]

\* the results get_all_services can return: the rows in rowid order, each read
\* with some iteration order of its txt map
RECURSIVE get_all_services(_)
get_all_services(d) ==
    IF d = <<>> THEN {<<>>}
    ELSE {<<e>> \o rest : e \in row_to_entry(Head(d)), rest \in get_all_services(Tail(d))}

\* WHERE service_type = ?1
get_services_by_type(d, service_type) ==
    get_all_services(SelectSeq(d, LAMBDA row : row.service_type = service_type))

\* query_row(...).optional()
get_service(d, instance_name) == ExistingReadings(d, instance_name)

\* rows matched by "last_seen < ?1 AND alive = 1" (a text comparison)
StaleRows(d, cutoff_str) ==
    {i \in 1..Len(d) : StrLess(d[i].last_seen, cutoff_str) /\ d[i].alive = 1}

\* a staleness sweep that marks nothing
mark_stale_nothing(d, stale_after_secs, t, fails) ==
    IF fails THEN [res |-> StoreError, db |-> d] ELSE [res |-> Ok(0), db |-> d]

\* a staleness sweep that flips the flag of the rows past the cutoff
mark_stale_toggle(d, stale_after_secs, t, fails) ==
    LET cutoff_str == to_rfc3339(t - stale_after_secs)
        hit == {i \in 1..Len(d) : StrLess(d[i].last_seen, cutoff_str)}
    IN  IF fails THEN [res |-> StoreError, db |-> d]
        ELSE [res |-> Ok(Cardinality(hit)),
              db |-> [i \in 1..Len(d) |->
                        IF i \in hit THEN [d[i] EXCEPT !.alive = 1 - @] ELSE d[i]]]

\* a staleness sweep that marks whatever the flag
mark_stale_any_flag(d, stale_after_secs, t, fails) ==
    LET cutoff_str == to_rfc3339(t - stale_after_secs)
        hit == {i \in 1..Len(d) : StrLess(d[i].last_seen, cutoff_str)}
    IN  IF fails THEN [res |-> StoreError, db |-> d]
        ELSE [res |-> Ok(Cardinality(hit)),
              db |-> [i \in 1..Len(d) |->
                        IF i \in hit THEN [d[i] EXCEPT !.alive = 0] ELSE d[i]]]

\* mark_stale: UPDATE services SET alive = 0 WHERE last_seen < cutoff AND alive = 1
mark_stale(d, stale_after_secs, t, fails) ==
    LET cutoff_str == to_rfc3339(t - stale_after_secs)
        hit == StaleRows(d, cutoff_str)
    IN  IF fails THEN [res |-> StoreError, db |-> d]
        ELSE [res |-> Ok(Cardinality(hit)),
              db |-> [i \in 1..Len(d) |->
                        IF i \in hit THEN [d[i] EXCEPT !.alive = 0] ELSE d[i]]]

\* rows matched by "last_seen < ?1"
PrunedRows(d, cutoff_str) ==
    {i \in 1..Len(d) : StrLess(d[i].last_seen, cutoff_str)}

\* a prune that spares the rows still alive
prune_stale_dead_only(d, prune_after_secs, t, fails) ==
    LET cutoff_str == to_rfc3339(t - prune_after_secs)
        hit == {i \in PrunedRows(d, cutoff_str) : d[i].alive = 0}
    IN  IF fails THEN [res |-> StoreError, db |-> d]
        ELSE [res |-> Ok(Cardinality(hit)),
              db |-> SelectSeq(d, LAMBDA row :
                        ~(StrLess(row.last_seen, cutoff_str) /\ row.alive = 0))]

\* prune_stale: DELETE FROM services WHERE last_seen < cutoff
prune_stale(d, prune_after_secs, t, fails) ==
    LET cutoff_str == to_rfc3339(t - prune_after_secs)
        hit == PrunedRows(d, cutoff_str)
    IN  IF fails THEN [res |-> StoreError, db |-> d]
        ELSE [res |-> Ok(Cardinality(hit)),
              db |-> SelectSeq(d, LAMBDA row : ~StrLess(row.last_seen, cutoff_str))]

----------------------------------------------------------------------------
\* mdns/browser.rs: conversion of a resolved descriptor.  A descriptor is
\* [ty, fullname, hostname, addresses, port, properties]; addresses is the
\* address set in the order its iteration yields, each <<family, address>>.

Descriptor(ty, fullname, host, addrs, port, props) ==
    [ty |-> ty, fullname |-> fullname, hostname |-> host, addresses |-> addrs,
     port |-> port, properties |-> props]

\* a filter that lets every address family through
AllAddresses(addrs) == [i \in 1..Len(addrs) |-> addrs[i][2]]

\* filter_map over get_addresses(): the IPv6 addresses, in iteration order
Ipv6Only(addrs) ==
    LET kept == SelectSeq(addrs, LAMBDA a : a[1] = "V6")
    IN  [i \in 1..Len(kept) |-> kept[i][2]]

\* convert_service_info at time t: the results it can give (None, or Some
\* entry with its txt map in some iteration order)
convert_service_info(info, t) ==
    LET addresses == Ipv6Only(info.addresses)
    IN  IF addresses = <<>> THEN {<<>>}
        ELSE {<<ServiceEntry(info.ty, info.fullname, info.hostname, addresses,
                             info.port, txt, t, t, DefaultTtl, TRUE)>> :
                 txt \in Perms(info.properties)}

----------------------------------------------------------------------------
\* Inputs.

BaseDescriptor(n) ==
    Descriptor("_http._tcp", n, "h1.local.", << <<"V6", "fd00::1">> >>, 8080, <<>>)

\* the properties of the service under NameB
TwoProperties == << <<"path", "x">>, <<"ver", "y">> >>

\* descriptors the discovery engine resolves for the cache actor: a service
\* under NameA, also with another port, with an IPv4 address beside or in
\* place of the IPv6 one and with a two-address set in both iteration orders,
\* and a service with two properties under NameB
Descriptors ==
    {BaseDescriptor(NameA),
     [BaseDescriptor(NameA) EXCEPT !.port = 9090],
     [BaseDescriptor(NameA) EXCEPT !.addresses = << <<"V4", "10.0.0.1">> >>],
     [BaseDescriptor(NameA) EXCEPT
         !.addresses = << <<"V4", "10.0.0.1">>, <<"V6", "fd00::1">> >>],
     [BaseDescriptor(NameA) EXCEPT
         !.addresses = << <<"V6", "fd00::1">>, <<"V6", "fd00::2">> >>],
     [BaseDescriptor(NameA) EXCEPT
         !.addresses = << <<"V6", "fd00::2">>, <<"V6", "fd00::1">> >>],
     [BaseDescriptor(NameB) EXCEPT !.properties = TwoProperties]}

\* entries of Resolved events: what convert_service_info makes of a descriptor
ResolvedEntries(t) ==
    {o[1] : o \in {c \in UNION {convert_service_info(d, t) : d \in Descriptors} : c # <<>>}}

BaseEntry(n, t) ==
    ServiceEntry("_http._tcp", n, "h1.local.", <<"fd00::1">>, 8080, <<>>, t, t,
                 DefaultTtl, TRUE)

\* entries given to upsert_service in the store development: the base entry
\* under each name and, under NameA, every change of one field
StoreEntries(t) ==
    {BaseEntry(NameA, t), BaseEntry(NameB, t)}
    \cup {[BaseEntry(NameA, t) EXCEPT !.service_type = v] : v \in ServiceTypes}
    \cup {[BaseEntry(NameA, t) EXCEPT !.hostname = v] : v \in Hostnames}
    \cup {[BaseEntry(NameA, t) EXCEPT !.addresses = v] : v \in AddrVecs}
    \cup {[BaseEntry(NameA, t) EXCEPT !.port = v] : v \in Ports}
    \cup {[BaseEntry(NameA, t) EXCEPT !.txt = v] :
            v \in {m \in TxtMaps : \A i \in 1..Len(m) : m[i][2] = "x"}}
    \cup {[BaseEntry(NameA, t) EXCEPT !.ttl = v] : v \in Ttls}
    \cup {[BaseEntry(NameA, t) EXCEPT !.alive = v] : v \in BOOLEAN}

\* <<stale_after_secs, prune_after_secs>> of a Maintenance command
MaintenanceArgs == {<<0, 1>>, <<1, 0>>}

----------------------------------------------------------------------------
\* cache_manager.rs: the cache actor (CacheHandle::spawn)

\* recompute after every successful upsert
UpsertRecomputesOnOk(result) == result.ok

\* matches!(&result, Ok(true))
UpsertRecomputes(result) == result.ok /\ result.val = TRUE

\* result.is_ok() of the MarkDead and Maintenance arms
RecomputesOnOk(result) == result.ok

\* recompute_hash: the <<value, version>> pairs the watch channel can hold
\* afterwards; nothing is sent when get_all_services fails
recompute_hash(d, readFails) ==
    IF readFails THEN {<<hash_value, hash_version>>}
    ELSE {<<compute_hash(services), hash_version + 1>> : services \in get_all_services(d)}

Publish(should, d, readFails) ==
    \E h \in (IF should THEN recompute_hash(d, readFails)
              ELSE {<<hash_value, hash_version>>}) :
        /\ hash_value' = h[1]
        /\ hash_version' = h[2]

Upsert(entry, old, f) ==
    /\ ncmds < MaxCmds
    /\ LET r == upsert_service(db, entry, old, f = "store")
       IN  /\ db' = r.db
           /\ Publish(UpsertRecomputes(r.res), r.db, f = "reread")
           /\ last' = [op |-> "Upsert", reply |-> r.res]
    /\ ncmds' = ncmds + 1
    /\ UNCHANGED <<now, hashVars, pipeVars>>

MarkDead(instance_name, f) ==
    /\ ncmds < MaxCmds
    /\ LET r == mark_dead(db, instance_name, now, f = "store")
       IN  /\ db' = r.db
           /\ Publish(RecomputesOnOk(r.res), r.db, f = "reread")
           /\ last' = [op |-> "MarkDead", reply |-> r.res]
    /\ ncmds' = ncmds + 1
    /\ UNCHANGED <<now, hashVars, pipeVars>>

GetAll(f) ==
    /\ ncmds < MaxCmds
    /\ \E result \in (IF f = "store" THEN {StoreError}
                      ELSE {Ok(v) : v \in get_all_services(db)}) :
          last' = [op |-> "GetAll", reply |-> result]
    /\ ncmds' = ncmds + 1
    /\ UNCHANGED <<db, hash_value, hash_version, now, hashVars, pipeVars>>

GetByType(service_type, f) ==
    /\ ncmds < MaxCmds
    /\ \E result \in (IF f = "store" THEN {StoreError}
                      ELSE {Ok(v) : v \in get_services_by_type(db, service_type)}) :
          last' = [op |-> "GetByType", reply |-> result]
    /\ ncmds' = ncmds + 1
    /\ UNCHANGED <<db, hash_value, hash_version, now, hashVars, pipeVars>>

GetOne(instance_name, f) ==
    /\ ncmds < MaxCmds
    /\ \E result \in (IF f = "store" THEN {StoreError}
                      ELSE {Ok(v) : v \in get_service(db, instance_name)}) :
          last' = [op |-> "GetOne", reply |-> result]
    /\ ncmds' = ncmds + 1
    /\ UNCHANGED <<db, hash_value, hash_version, now, hashVars, pipeVars>>

\* a closure that prunes without the staleness sweep
MaintenanceSweepsPruneOnly(d, stale_after_secs, prune_after_secs, t, f) ==
    LET p == prune_stale(d, prune_after_secs, t, f = "prune")
    IN  IF f = "store" \/ ~p.res.ok
        THEN [res |-> StoreError, db |-> d, marked |-> 0, pruned |-> 0]
        ELSE [res |-> Ok("unit"), db |-> p.db, marked |-> 0, pruned |-> p.res.val]

\* the closure of the Maintenance arm: mark_stale(..)?; prune_stale(..)?; Ok(())
MaintenanceSweeps(d, stale_after_secs, prune_after_secs, t, f) ==
    LET s == mark_stale(d, stale_after_secs, t, f = "store")
        p == prune_stale(s.db, prune_after_secs, t, f = "prune")
    IN  IF ~s.res.ok THEN [res |-> StoreError, db |-> d, marked |-> 0, pruned |-> 0]
        ELSE IF ~p.res.ok
             THEN [res |-> StoreError, db |-> s.db, marked |-> s.res.val, pruned |-> 0]
             ELSE [res |-> Ok("unit"), db |-> p.db, marked |-> s.res.val,
                   pruned |-> p.res.val]

Maintenance(stale_after_secs, prune_after_secs, f) ==
    /\ ncmds < MaxCmds
    /\ LET r == MaintenanceSweeps(db, stale_after_secs, prune_after_secs, now, f)
       IN  /\ db' = r.db
           /\ Publish(RecomputesOnOk(r.res), r.db, f = "reread")
           /\ last' = [op |-> "Maintenance", reply |-> r.res,
                       marked |-> r.marked, pruned |-> r.pruned]
    /\ ncmds' = ncmds + 1
    /\ UNCHANGED <<now, hashVars, pipeVars>>

\* the wall clock advances
Tick ==
    /\ now < StartTime + MaxTime
    /\ now' = now + 1
    /\ UNCHANGED <<db, hash_value, hash_version, ncmds, last, hashVars, pipeVars>>

\* the API handlers that send Get commands: get_services sends GetAll or
\* GetByType, get_service sends GetOne
Readers == {"get_services", "get_service"}

\* the tasks that hold a reply channel: the cache manager loop and the handlers
Senders == {"bridge"} \cup Readers

\* main before its tasks have run: both channels empty, every task at its
\* select, the cache thread at blocking_recv
PipeInit ==
    /\ mux = [pc |-> "select", ev |-> <<>>, info |-> <<>>]
    /\ events = <<>>
    /\ bridge = [pc |-> "select", cmd |-> <<>>]
    /\ cmdq = <<>>
    /\ readers = [r \in Readers |-> "idle"]
    /\ replies = [x \in Senders |-> <<>>]
    /\ actor = [pc |-> "recv", cmd |-> <<>>]
    /\ main = "serving"
    /\ hist = [db0 |-> db, emitted |-> <<>>, applied |-> <<>>, deq |-> <<>>,
               issued |-> 0]
    /\ subs = [browsed |-> {}, next_idx |-> 0, types |-> <<>>, pool |-> <<>>,
               inhand |-> <<>>, dropped |-> {}, meta |-> "armed",
               metaFailed |-> FALSE, sendFailed |-> FALSE, seen |-> <<>>,
               handled |-> 0]
    /\ timer = "elapsed"

\* catalogs CacheDb::open can find persisted: none, or a row written one tick
\* before the process started
PersistedCatalogs == {<<>>, <<EntryToRow(BaseEntry(NameB, StartTime - 1))>>}

\* main: the initial fingerprint is computed from the persisted catalog
Init ==
    /\ db \in PersistedCatalogs
    /\ hash_value \in {compute_hash(services) : services \in get_all_services(db)}
    /\ hash_version = 0
    /\ now = StartTime
    /\ ncmds = 0
    /\ last = [op |-> "none"]
    /\ hL = <<>>
    /\ hM = <<>>
    /\ hOp = "none"
    /\ hashL = compute_hash(<<>>)
    /\ hashM = compute_hash(<<>>)
    /\ PipeInit

Next ==
    \/ \E entry \in ResolvedEntries(now), f \in {"none", "store", "reread"} :
         \E old \in ExistingReadings(db, entry.instance_name) : Upsert(entry, old, f)
    \/ \E n \in InstanceNames, f \in {"none", "store", "reread"} : MarkDead(n, f)
    \/ \E f \in {"none", "store"} : GetAll(f)
    \/ \E ty \in ServiceTypes, f \in {"none", "store"} : GetByType(ty, f)
    \/ \E n \in InstanceNames, f \in {"none", "store"} : GetOne(n, f)
    \/ \E a \in MaintenanceArgs, f \in {"none", "store", "prune", "reread"} :
         Maintenance(a[1], a[2], f)
    \/ Tick

Spec == Init /\ [][Next]_vars

\* the cache actor driven through CacheHandle's public methods, with every
\* entry the ServiceEntry type allows
NextHandle ==
    \/ \E entry \in StoreEntries(now), f \in {"none", "store"} :
         \E old \in ExistingReadings(db, entry.instance_name) : Upsert(entry, old, f)
    \/ \E n \in InstanceNames, f \in {"none", "store"} : MarkDead(n, f)
    \/ \E f \in {"none", "store"} : GetAll(f)
    \/ \E ty \in ServiceTypes, f \in {"none", "store"} : GetByType(ty, f)
    \/ \E n \in InstanceNames, f \in {"none", "store"} : GetOne(n, f)
    \/ \E a \in MaintenanceArgs, f \in {"none", "store", "prune"} :
         Maintenance(a[1], a[2], f)
    \/ Tick

SpecHandle == Init /\ [][NextHandle]_vars

\* the store development: CacheDb::upsert_service called directly, over every
\* one-field change of the entry
DbUpsert(entry, old, fails) ==
    /\ ncmds < MaxCmds
    /\ LET r == upsert_service(db, entry, old, fails)
       IN  /\ db' = r.db
           /\ last' = [op |-> "upsert_service", entry |-> entry, reply |-> r.res]
    /\ ncmds' = ncmds + 1
    /\ UNCHANGED <<hash_value, hash_version, now, hashVars, pipeVars>>

NextUpsert ==
    \/ \E entry \in StoreEntries(now), fails \in BOOLEAN :
         \E old \in ExistingReadings(db, entry.instance_name) : DbUpsert(entry, old, fails)
    \/ Tick

SpecUpsert == Init /\ [][NextUpsert]_vars

----------------------------------------------------------------------------
\* The sweep development: mark_dead, mark_stale and prune_stale called
\* directly on catalogs whose rows differ in age and in their alive flag.

\* rows a catalog can hold when the sweeps run: under either name, last seen
\* up to two ticks before the clock starts, alive or dead
SweepRows ==
    {EntryToRow([BaseEntry(n, t) EXCEPT !.alive = a]) :
        n \in InstanceNames, t \in (StartTime - 2)..StartTime, a \in BOOLEAN}

\* catalogs of such rows, instance_name being the primary key
SweepCatalogs ==
    {d \in InjSeqs(SweepRows, Cardinality(InstanceNames)) :
        \A i, j \in 1..Len(d) : i # j => d[i].instance_name # d[j].instance_name}

\* thresholds given to the sweeps, in ticks
SweepThresholds == 0..MaxTime

DbMarkDead(instance_name, fails) ==
    /\ ncmds < MaxCmds
    /\ LET r == mark_dead(db, instance_name, now, fails)
       IN  /\ db' = r.db
           /\ last' = [op |-> "mark_dead", name |-> instance_name, reply |-> r.res]
    /\ ncmds' = ncmds + 1
    /\ UNCHANGED <<hash_value, hash_version, now, hashVars, pipeVars>>

DbMarkStale(stale_after_secs, fails) ==
    /\ ncmds < MaxCmds
    /\ LET r == mark_stale(db, stale_after_secs, now, fails)
       IN  /\ db' = r.db
           /\ last' = [op |-> "mark_stale", secs |-> stale_after_secs, reply |-> r.res]
    /\ ncmds' = ncmds + 1
    /\ UNCHANGED <<hash_value, hash_version, now, hashVars, pipeVars>>

DbPruneStale(prune_after_secs, fails) ==
    /\ ncmds < MaxCmds
    /\ LET r == prune_stale(db, prune_after_secs, now, fails)
       IN  /\ db' = r.db
           /\ last' = [op |-> "prune_stale", secs |-> prune_after_secs, reply |-> r.res]
    /\ ncmds' = ncmds + 1
    /\ UNCHANGED <<hash_value, hash_version, now, hashVars, pipeVars>>

InitSweep ==
    /\ db \in SweepCatalogs
    /\ hash_value = compute_hash(<<>>)
    /\ hash_version = 0
    /\ now = StartTime
    /\ ncmds = 0
    /\ last = [op |-> "none"]
    /\ hL = <<>>
    /\ hM = <<>>
    /\ hOp = "none"
    /\ hashL = compute_hash(<<>>)
    /\ hashM = compute_hash(<<>>)
    /\ PipeInit

NextSweep ==
    \/ \E n \in InstanceNames, fails \in BOOLEAN : DbMarkDead(n, fails)
    \/ \E secs \in SweepThresholds, fails \in BOOLEAN : DbMarkStale(secs, fails)
    \/ \E secs \in SweepThresholds, fails \in BOOLEAN : DbPruneStale(secs, fails)
    \/ Tick

SpecSweep == InitSweep /\ [][NextSweep]_vars

----------------------------------------------------------------------------
\* The daemon as main composes it: the multiplexer (run_browser) sends
\* BrowserEvents on a bounded channel to the cache manager loop
\* (cache_manager::run), which turns them and the maintenance timer into
\* commands; the API handlers send Get commands; the cache thread drains the
\* bounded command channel.  An event is <<kind, arg>> as a record, a command
\* [kind, arg, from].

\* capacity of the BrowserEvent channel, scaled down from mpsc::channel(256)
EventCap == 1
\* capacity of the CacheCommand channel, scaled down from mpsc::channel(256)
CommandCap == 1
\* events the multiplexer emits in one run
MaxEvents == 3

\* descriptors the discovery engine resolves in the composed daemon: a service
\* with one IPv6 address, with an IPv4 address only, and with both families
PipelineDescriptors ==
    {BaseDescriptor(NameA),
     [BaseDescriptor(NameA) EXCEPT !.addresses = << <<"V4", "10.0.0.1">> >>],
     [BaseDescriptor(NameA) EXCEPT
         !.addresses = << <<"V4", "10.0.0.1">>, <<"V6", "fd00::2">> >>]}

\* config.cache.stale_after_secs and prune_after_secs, in ticks
ConfigSweeps == <<0, 1>>

Event(kind, arg) == [kind |-> kind, arg |-> arg]

Command(kind, arg, from) == [kind |-> kind, arg |-> arg, from |-> from]

cancelled == main # "serving"

\* run_browser, ServiceResolved arm: convert the descriptor; send a Resolved
\* event if the conversion gave an entry, nothing otherwise
MuxResolved(info) ==
    /\ mux.pc = "select"
    /\ Len(hist.emitted) < MaxEvents
    /\ \E c \in convert_service_info(info, now) :
         IF c = <<>>
         THEN /\ mux' = [pc |-> "select", ev |-> <<>>, info |-> <<info>>]
              /\ hist' = hist
         ELSE /\ mux' = [pc |-> "send", ev |-> <<Event("Resolved", c[1])>>,
                         info |-> <<info>>]
              /\ hist' = [hist EXCEPT !.emitted = Append(@, Event("Resolved", c[1]))]
    /\ UNCHANGED <<events, bridge, cmdq, readers, replies, actor, main, actorVars, hashVars, timer>>

\* run_browser, ServiceRemoved arm
MuxRemoved(fullname) ==
    /\ mux.pc = "select"
    /\ Len(hist.emitted) < MaxEvents
    /\ mux' = [mux EXCEPT !.pc = "send", !.ev = <<Event("Removed", fullname)>>]
    /\ hist' = [hist EXCEPT !.emitted = Append(@, Event("Removed", fullname))]
    /\ UNCHANGED <<events, bridge, cmdq, readers, replies, actor, main, actorVars, hashVars, timer>>

\* a send that lets the event go when the channel is full
MuxSendLossy ==
    /\ mux.pc = "send"
    /\ events' = IF bridge.pc # "done" /\ Len(events) < EventCap
                 THEN Append(events, mux.ev[1]) ELSE events
    /\ mux' = [mux EXCEPT !.pc = "select", !.ev = <<>>]
    /\ UNCHANGED <<bridge, cmdq, readers, replies, actor, main, hist, actorVars, hashVars, timer>>

\* a send that stays suspended on a full channel whose receiver is gone
MuxSendSuspended ==
    /\ mux.pc = "send"
    /\ Len(events) < EventCap
    /\ events' = Append(events, mux.ev[1])
    /\ mux' = [mux EXCEPT !.pc = "select", !.ev = <<>>]
    /\ UNCHANGED <<bridge, cmdq, readers, replies, actor, main, hist, actorVars, hashVars, timer>>

\* tx.send(event).await: completes when the channel has room, stays suspended
\* while it is full, and fails (the event is logged and let go) once the
\* receiver has been dropped
MuxSend ==
    /\ mux.pc = "send"
    /\ IF bridge.pc = "done"
       THEN events' = events
       ELSE /\ Len(events) < EventCap
            /\ events' = Append(events, mux.ev[1])
    /\ mux' = [mux EXCEPT !.pc = "select", !.ev = <<>>]
    /\ UNCHANGED <<bridge, cmdq, readers, replies, actor, main, hist, actorVars, hashVars, timer>>

\* run_browser, cancel.cancelled() arm
MuxCancelled ==
    /\ mux.pc = "select"
    /\ cancelled
    /\ mux' = [mux EXCEPT !.pc = "done"]
    /\ UNCHANGED <<events, bridge, cmdq, readers, replies, actor, main, hist, actorVars, hashVars, timer>>

\* run, rx.recv() arm: take the oldest event and build its command
BridgeRecv ==
    /\ bridge.pc = "select"
    /\ events # <<>>
    /\ hist.issued < MaxCmds
    /\ LET event == Head(events)
           kind == IF event.kind = "Resolved" THEN "Upsert" ELSE "MarkDead"
       IN  bridge' = [pc |-> "send", cmd |-> <<Command(kind, event.arg, "bridge")>>]
    /\ events' = Tail(events)
    /\ hist' = [hist EXCEPT !.issued = @ + 1]
    /\ UNCHANGED <<mux, cmdq, readers, replies, actor, main, actorVars, hashVars, subs, timer>>

\* run, maintenance_interval.tick() arm, under a configuration whose
\* <<stale_after_secs, prune_after_secs>> is `sweeps`
BridgeTickWith(sweeps) ==
    /\ bridge.pc = "select"
    /\ hist.issued < MaxCmds
    /\ bridge' = [pc |-> "send", cmd |-> <<Command("Maintenance", sweeps, "bridge")>>]
    /\ hist' = [hist EXCEPT !.issued = @ + 1]
    /\ UNCHANGED <<mux, events, cmdq, readers, replies, actor, main, actorVars, hashVars, subs, timer>>

BridgeTick == BridgeTickWith(ConfigSweeps)

\* CacheHandle::upsert / mark_dead / maintenance: self.tx.send(..).await
BridgeSend ==
    /\ bridge.pc = "send"
    /\ Len(cmdq) < CommandCap
    /\ cmdq' = Append(cmdq, bridge.cmd[1])
    /\ bridge' = [bridge EXCEPT !.pc = "await"]
    /\ UNCHANGED <<mux, events, readers, replies, actor, main, hist, actorVars, hashVars, subs, timer>>

\* CacheHandle::upsert / mark_dead / maintenance: rx.await; an error is logged
BridgeReply ==
    /\ bridge.pc = "await"
    /\ replies["bridge"] # <<>>
    /\ replies' = [replies EXCEPT !["bridge"] = <<>>]
    /\ bridge' = [pc |-> "select", cmd |-> <<>>]
    /\ UNCHANGED <<mux, events, cmdq, readers, actor, main, hist, actorVars, hashVars, subs, timer>>

\* run, cancel.cancelled() arm: the loop ends and the receiver is dropped
\* with whatever the channel still holds
BridgeCancelled ==
    /\ bridge.pc = "select"
    /\ cancelled
    /\ bridge' = [bridge EXCEPT !.pc = "done"]
    /\ events' = <<>>
    /\ UNCHANGED <<mux, cmdq, readers, replies, actor, main, hist, actorVars, hashVars, subs, timer>>

\* an API handler sends a Get command (CacheHandle::get_all / get_by_type /
\* get_one: self.tx.send(..).await)
ReaderRequest(r, kind, arg) ==
    /\ readers[r] = "idle"
    /\ ~cancelled
    /\ hist.issued < MaxCmds
    /\ Len(cmdq) < CommandCap
    /\ cmdq' = Append(cmdq, Command(kind, arg, r))
    /\ readers' = [readers EXCEPT ![r] = "await"]
    /\ hist' = [hist EXCEPT !.issued = @ + 1]
    /\ UNCHANGED <<mux, events, bridge, replies, actor, main, actorVars, hashVars, subs, timer>>

\* the handler's rx.await
ReaderReply(r) ==
    /\ readers[r] = "await"
    /\ replies[r] # <<>>
    /\ replies' = [replies EXCEPT ![r] = <<>>]
    /\ readers' = [readers EXCEPT ![r] = "idle"]
    /\ UNCHANGED <<mux, events, bridge, cmdq, actor, main, hist, actorVars, hashVars, subs, timer>>

\* a thread that also dequeues between the two sweeps of Maintenance
ReceivingOrSweeping == actor.pc \in {"recv", "prune"}

\* the cache thread is at rx.blocking_recv()
Receiving == actor.pc = "recv"

\* a loop that ends when a command has failed
StopOnError(result) == IF result.ok THEN "recv" ELSE "stopped"

\* where the loop is after an arm has sent its reply: back at blocking_recv,
\* whatever the result
AfterCommand(result) == "recv"

\* a Shutdown arm that goes back to blocking_recv
ShutdownContinues == "recv"

\* where the loop is after the Shutdown arm: break
AfterShutdown == "stopped"

\* let _ = reply.send(result)
ActorReply(cmd, result) == replies' = [replies EXCEPT ![cmd.from] = <<result>>]

\* the record of a dequeued command: the store failure it met and the clock
\* readings of its store calls
Logged(cmd, f) ==
    [kind |-> cmd.kind, arg |-> cmd.arg, from |-> cmd.from, f |-> f,
     t |-> now, t2 |-> now]

ActorUpsert(f) ==
    /\ Receiving
    /\ cmdq # <<>>
    /\ Head(cmdq).kind = "Upsert"
    /\ \E old \in ExistingReadings(db, Head(cmdq).arg.instance_name) :
         LET cmd == Head(cmdq)
             r == upsert_service(db, cmd.arg, old, f = "store")
         IN  /\ db' = r.db
             /\ Publish(UpsertRecomputes(r.res), r.db, FALSE)
             /\ ActorReply(cmd, r.res)
             /\ actor' = [actor EXCEPT !.pc = AfterCommand(r.res)]
             /\ hist' = [hist EXCEPT !.deq = Append(@, Logged(cmd, f)),
                                     !.applied = Append(@, Event("Resolved", cmd.arg))]
    /\ cmdq' = Tail(cmdq)
    /\ ncmds' = ncmds + 1
    /\ UNCHANGED <<now, last, hashVars, mux, events, bridge, readers, main, subs, timer>>

ActorMarkDead(f) ==
    /\ Receiving
    /\ cmdq # <<>>
    /\ Head(cmdq).kind = "MarkDead"
    /\ LET cmd == Head(cmdq)
           r == mark_dead(db, cmd.arg, now, f = "store")
       IN  /\ db' = r.db
           /\ Publish(RecomputesOnOk(r.res), r.db, FALSE)
           /\ ActorReply(cmd, r.res)
           /\ actor' = [actor EXCEPT !.pc = AfterCommand(r.res)]
           /\ hist' = [hist EXCEPT !.deq = Append(@, Logged(cmd, f)),
                                   !.applied = Append(@, Event("Removed", cmd.arg))]
    /\ cmdq' = Tail(cmdq)
    /\ ncmds' = ncmds + 1
    /\ UNCHANGED <<now, last, hashVars, mux, events, bridge, readers, main, subs, timer>>

\* the three Get arms: read, reply
ActorGet(kind, f) ==
    /\ Receiving
    /\ cmdq # <<>>
    /\ Head(cmdq).kind = kind
    /\ LET cmd == Head(cmdq)
           found == CASE kind = "GetAll" -> get_all_services(db)
                      [] kind = "GetByType" -> get_services_by_type(db, cmd.arg)
                      [] kind = "GetOne" -> get_service(db, cmd.arg)
       IN  \E result \in (IF f = "store" THEN {StoreError} ELSE {Ok(v) : v \in found}) :
             /\ ActorReply(cmd, result)
             /\ actor' = [actor EXCEPT !.pc = AfterCommand(result)]
             /\ hist' = [hist EXCEPT !.deq = Append(@, Logged(cmd, f))]
    /\ cmdq' = Tail(cmdq)
    /\ ncmds' = ncmds + 1
    /\ UNCHANGED <<db, hash_value, hash_version, now, last, hashVars, mux, events,
                   bridge, readers, main, subs, timer>>

ActorGetAll(f) == ActorGet("GetAll", f)

ActorGetByType(f) == ActorGet("GetByType", f)

ActorGetOne(f) == ActorGet("GetOne", f)

\* the Maintenance arm up to the end of db.mark_stale(..)?: on an error the
\* closure returns it and the arm replies
ActorMaintenanceStale(f) ==
    /\ Receiving
    /\ cmdq # <<>>
    /\ Head(cmdq).kind = "Maintenance"
    /\ LET cmd == Head(cmdq)
           r == mark_stale(db, cmd.arg[1], now, f = "store")
       IN  /\ db' = r.db
           /\ hist' = [hist EXCEPT !.deq = Append(@, Logged(cmd, f))]
           /\ IF r.res.ok
              THEN /\ actor' = [pc |-> "prune", cmd |-> <<cmd>>]
                   /\ replies' = replies
              ELSE /\ actor' = [actor EXCEPT !.pc = AfterCommand(r.res)]
                   /\ ActorReply(cmd, StoreError)
    /\ cmdq' = Tail(cmdq)
    /\ ncmds' = ncmds + 1
    /\ UNCHANGED <<hash_value, hash_version, now, last, hashVars, mux, events, bridge,
                   readers, main, subs, timer>>

\* the rest of the Maintenance arm: db.prune_stale(..)?, recompute_hash if
\* both sweeps succeeded, reply
ActorMaintenancePrune(f) ==
    /\ actor.pc = "prune"
    /\ LET cmd == actor.cmd[1]
           r == prune_stale(db, cmd.arg[2], now, f = "prune")
           result == IF r.res.ok THEN Ok("unit") ELSE StoreError
       IN  /\ db' = r.db
           /\ Publish(RecomputesOnOk(result), r.db, FALSE)
           /\ ActorReply(cmd, result)
           /\ actor' = [pc |-> AfterCommand(result), cmd |-> <<>>]
           /\ hist' = [hist EXCEPT !.deq[Len(hist.deq)].f = f,
                                   !.deq[Len(hist.deq)].t2 = now]
    /\ UNCHANGED <<now, ncmds, last, hashVars, mux, events, bridge, cmdq, readers, main, subs, timer>>

\* the Shutdown arm
ActorShutdown ==
    /\ Receiving
    /\ cmdq # <<>>
    /\ Head(cmdq).kind = "Shutdown"
    /\ actor' = [actor EXCEPT !.pc = AfterShutdown]
    /\ hist' = [hist EXCEPT !.deq = Append(@, Logged(Head(cmdq), "none"))]
    /\ cmdq' = Tail(cmdq)
    /\ UNCHANGED <<actorVars, hashVars, mux, events, bridge, readers, replies, main, subs, timer>>

\* main: ctrl_c arrives and the cancellation token is triggered
Cancel ==
    /\ main = "serving"
    /\ main' = "joining"
    /\ UNCHANGED <<actorVars, hashVars, mux, events, bridge, cmdq, readers, replies,
                   actor, hist, subs, timer>>

\* main: the three tasks have been joined; cache_handle.shutdown() sends Shutdown
MainShutdown ==
    /\ main = "joining"
    /\ mux.pc = "done"
    /\ bridge.pc = "done"
    /\ \A r \in Readers : readers[r] = "idle"
    /\ Len(cmdq) < CommandCap
    /\ cmdq' = Append(cmdq, Command("Shutdown", <<>>, "main"))
    /\ main' = "exited"
    /\ UNCHANGED <<actorVars, hashVars, mux, events, bridge, readers, replies, actor, hist, subs, timer>>

\* the catalog a logged command leaves
Apply(d, c) ==
    CASE c.kind = "Upsert" -> upsert_service(d, c.arg, <<>>, c.f = "store").db
      [] c.kind = "MarkDead" -> mark_dead(d, c.arg, c.t, c.f = "store").db
      [] c.kind = "Maintenance" ->
           LET s == mark_stale(d, c.arg[1], c.t, c.f = "store")
           IN  IF ~s.res.ok THEN d
               ELSE prune_stale(s.db, c.arg[2], c.t2, c.f = "prune").db
      [] OTHER -> d

\* the catalog that the logged commands leave when run one after the other
RECURSIVE Replay(_, _)
Replay(d, log) == IF log = <<>> THEN d ELSE Replay(Apply(d, Head(log)), Tail(log))

\* discovery traffic: the multiplexer, the event channel, the cache manager
\* loop and the write arms of the cache thread, up to cancellation
NextDiscovery ==
    \/ \E info \in PipelineDescriptors : MuxResolved(info) /\ UNCHANGED subs
    \/ \E n \in InstanceNames : MuxRemoved(n) /\ UNCHANGED subs
    \/ MuxSend /\ UNCHANGED subs
    \/ MuxCancelled /\ UNCHANGED subs
    \/ BridgeRecv
    \/ BridgeSend
    \/ BridgeReply
    \/ BridgeCancelled
    \/ \E f \in {"none", "store"} : ActorUpsert(f)
    \/ \E f \in {"none", "store"} : ActorMarkDead(f)
    \/ Cancel

SpecDiscovery == Init /\ [][NextDiscovery]_vars

\* command traffic with no service being discovered: the maintenance timer,
\* the API handlers, the cache thread, and shutdown
NextCommands ==
    \/ MuxCancelled /\ UNCHANGED subs
    \/ BridgeTick
    \/ BridgeSend
    \/ BridgeReply
    \/ BridgeCancelled
    \/ ReaderRequest("get_services", "GetAll", <<>>)
    \/ ReaderRequest("get_services", "GetByType", "_http._tcp")
    \/ ReaderRequest("get_service", "GetOne", NameB)
    \/ \E r \in Readers : ReaderReply(r)
    \/ \E f \in {"none", "store"} : ActorGetAll(f)
    \/ \E f \in {"none", "store"} : ActorGetByType(f)
    \/ \E f \in {"none", "store"} : ActorGetOne(f)
    \/ \E f \in {"none", "store"} : ActorMaintenanceStale(f)
    \/ \E f \in {"none", "prune"} : ActorMaintenancePrune(f)
    \/ ActorShutdown
    \/ Cancel
    \/ MainShutdown
    \/ Tick

SpecCommands == Init /\ [][NextCommands]_vars

----------------------------------------------------------------------------
\* The fingerprint development: compute_hash applied to an entry list hL and
\* to a list hM derived from it in one step.

\* entries the lists are made of
HashEntries ==
    {BaseEntry(NameA, StartTime), BaseEntry(NameB, StartTime),
     [BaseEntry(NameA, StartTime) EXCEPT !.port = 9090],
     [BaseEntry(NameA, StartTime) EXCEPT !.alive = FALSE],
     [BaseEntry(NameA, StartTime) EXCEPT !.txt = << <<"path", "x">>, <<"ver", "y">> >>],
     [BaseEntry(NameB, StartTime) EXCEPT !.txt = << <<"ver", "y">>, <<"path", "x">> >>]}

RECURSIVE SeqsUpTo(_, _)
SeqsUpTo(S, n) ==
    IF n = 0 THEN {<<>>}
    ELSE LET shorter == SeqsUpTo(S, n - 1)
         IN  shorter \cup {Append(s, x) : s \in {t \in shorter : Len(t) = n - 1}, x \in S}

EntryLists == SeqsUpTo(HashEntries, MaxLen)

UniqueNames(services) ==
    \A i, j \in 1..Len(services) :
        i # j => services[i].instance_name # services[j].instance_name

\* the values a content field can be changed to
FieldValues(field) ==
    CASE field = "service_type" -> ServiceTypes
      [] field = "hostname" -> Hostnames
      [] field = "addresses" -> AddrVecs
      [] field = "port" -> Ports
      [] field = "txt" -> TxtMaps
      [] field = "alive" -> BOOLEAN

ContentFields == {"service_type", "hostname", "addresses", "port", "txt", "alive"}

SameValue(field, v, w) == IF field = "txt" THEN TxtEq(v, w) ELSE v = w

\* the lists equal to services in every field, txt compared as a mapping
RECURSIVE Rebuilds(_)
Rebuilds(services) ==
    IF services = <<>> THEN {<<>>}
    ELSE {<<[Head(services) EXCEPT !.txt = t]>> \o rest :
             t \in Perms(Head(services).txt), rest \in Rebuilds(Tail(services))}

Derive(list, op) ==
    /\ hOp = "given"
    /\ hM' = list
    /\ hOp' = op
    /\ hashM' = compute_hash(list)
    /\ UNCHANGED <<hL, hashL, actorVars, pipeVars>>

\* the same entries in another order
HashPermuted(list) == Derive(list, "permuted")

\* entry i with other first_seen, last_seen and ttl
HashFreshness(i, first, lastSeen, ttl) ==
    Derive([hL EXCEPT ![i].first_seen = first, ![i].last_seen = lastSeen,
                      ![i].ttl = ttl], "freshness")

\* entry i with another value of one content field
HashContent(i, field, v) ==
    /\ ~SameValue(field, hL[i][field], v)
    /\ Derive([hL EXCEPT ![i][field] = v], "content")

\* the same entries, their txt maps built anew
HashRebuilt(list) == Derive(list, "rebuilt")

InitHash ==
    /\ db = <<>>
    /\ hash_value = compute_hash(<<>>)
    /\ hash_version = 0
    /\ now = StartTime
    /\ ncmds = 0
    /\ last = [op |-> "none"]
    /\ hL \in EntryLists
    /\ hM = hL
    /\ hOp = "given"
    /\ hashL = compute_hash(hL)
    /\ hashM = compute_hash(hL)
    /\ PipeInit

NextHash ==
    \/ \E list \in Perms(hL) : HashPermuted(list)
    \/ \E i \in 1..Len(hL), first \in StartTime..(StartTime + 1),
          lastSeen \in StartTime..(StartTime + 1), ttl \in Ttls :
         HashFreshness(i, first, lastSeen, ttl)
    \/ \E i \in 1..Len(hL), field \in ContentFields :
         \E v \in FieldValues(field) : HashContent(i, field, v)
    \/ \E list \in Rebuilds(hL) : HashRebuilt(list)

SpecHash == InitHash /\ [][NextHash]_vars

----------------------------------------------------------------------------
\* The subscriptions of run_browser.  subs.types lists the per-type
\* subscriptions in the order they were opened (the one with idx k - 1 at
\* position k), subs.pool counts the receive futures each has in type_futures,
\* subs.inhand is the subscription whose future has yielded and whose arm is
\* suspended in tx.send(..).await.  The meta-subscription is not in the pool:
\* the select awaits meta_receiver.recv_async() itself, on every iteration.

\* items the select arms of run_browser handle in one run
MaxItems == 4

\* descriptors resolved by the per-type subscriptions: a service of one type
\* with an IPv6 address and with an IPv4 address only, a service of the other
BrowserDescriptors ==
    {BaseDescriptor(NameA),
     [BaseDescriptor(NameA) EXCEPT !.addresses = << <<"V4", "10.0.0.1">> >>],
     [BaseDescriptor(NameB) EXCEPT !.ty = "_ssh._tcp"]}

\* a check that takes every announced type for new
NeverBrowsed(ty) == FALSE

\* browsed_types.contains(service_type)
AlreadyBrowsed(ty) == ty \in subs.browsed

\* an arm that does not push the receive back
RearmNever(pool, k) == pool

\* type_futures.push(make_recv_future(idx, rx))
Rearm(pool, k) == [pool EXCEPT ![k] = @ + 1]

\* type_futures.next() has yielded the future of subscription k
Yielded(k) == [subs EXCEPT !.pool[k] = @ - 1, !.handled = @ + 1]

\* a receive of subscription k is pending in the pool
Pending(k) == k \in 1..Len(subs.types) /\ subs.pool[k] > 0

\* whether the next select awaits the meta-subscription after its receive
\* has completed with an error: the arm logs and the loop goes round
MetaAfterError == "armed"

\* meta arm, ServiceResolved: a type not yet in browsed_types is inserted and
\* browsed; if the browse succeeds its receive is pushed into the pool
MetaResolved(ty, browseOk) ==
    /\ mux.pc = "select"
    /\ subs.meta = "armed"
    /\ subs.handled < MaxItems
    /\ LET noted == [subs EXCEPT !.seen = Append(@, ty), !.handled = @ + 1]
       IN  subs' = IF AlreadyBrowsed(ty) THEN noted
                   ELSE IF browseOk
                   THEN [noted EXCEPT !.browsed = @ \cup {ty},
                                      !.next_idx = @ + 1,
                                      !.types = Append(@, ty),
                                      !.pool = Append(@, 1)]
                   ELSE [noted EXCEPT !.browsed = @ \cup {ty}]
    /\ UNCHANGED <<mux, events, bridge, cmdq, readers, replies, actor, main, hist,
                   timer, actorVars, hashVars>>

\* meta arm, ServiceRemoved and every other event: nothing
MetaOther ==
    /\ mux.pc = "select"
    /\ subs.meta = "armed"
    /\ subs.handled < MaxItems
    /\ subs' = [subs EXCEPT !.handled = @ + 1]
    /\ UNCHANGED <<mux, events, bridge, cmdq, readers, replies, actor, main, hist,
                   timer, actorVars, hashVars>>

\* meta arm, Err(e): logged
MetaError ==
    /\ mux.pc = "select"
    /\ subs.meta = "armed"
    /\ subs.handled < MaxItems
    /\ subs' = [subs EXCEPT !.metaFailed = TRUE, !.meta = MetaAfterError,
                            !.handled = @ + 1]
    /\ UNCHANGED <<mux, events, bridge, cmdq, readers, replies, actor, main, hist,
                   timer, actorVars, hashVars>>

\* per-type arm, ServiceResolved: the receive is pushed back at once when the
\* conversion discards the descriptor, after the send otherwise
TypeResolved(k, info) ==
    /\ Pending(k)
    /\ subs.handled < MaxItems
    /\ info.ty = subs.types[k]
    /\ MuxResolved(info)
    /\ subs' = IF mux'.pc = "send"
               THEN [Yielded(k) EXCEPT !.inhand = <<k>>]
               ELSE [Yielded(k) EXCEPT !.pool = Rearm(@, k)]

\* per-type arm, ServiceRemoved
TypeRemoved(k, fullname) ==
    /\ Pending(k)
    /\ subs.handled < MaxItems
    /\ MuxRemoved(fullname)
    /\ subs' = [Yielded(k) EXCEPT !.inhand = <<k>>]

\* per-type arm, every other event: the receive is pushed back
TypeOther(k) ==
    /\ mux.pc = "select"
    /\ Pending(k)
    /\ subs.handled < MaxItems
    /\ subs' = [Yielded(k) EXCEPT !.pool = Rearm(@, k)]
    /\ UNCHANGED <<mux, events, bridge, cmdq, readers, replies, actor, main, hist,
                   timer, actorVars, hashVars>>

\* per-type arm, Err(e): logged, the receive is not pushed back
TypeDisconnected(k) ==
    /\ mux.pc = "select"
    /\ Pending(k)
    /\ subs.handled < MaxItems
    /\ subs' = [Yielded(k) EXCEPT !.dropped = @ \cup {k}]
    /\ UNCHANGED <<mux, events, bridge, cmdq, readers, replies, actor, main, hist,
                   timer, actorVars, hashVars>>

\* the send of the arm in hand ends, delivered or failed, and the arm pushes
\* the receive back
BrowserSend ==
    /\ MuxSend
    /\ subs.inhand # <<>>
    /\ subs' = [subs EXCEPT !.pool = Rearm(@, subs.inhand[1]),
                            !.inhand = <<>>,
                            !.sendFailed = @ \/ bridge.pc = "done"]

NextBrowser ==
    \/ \E ty \in ServiceTypes, browseOk \in BOOLEAN : MetaResolved(ty, browseOk)
    \/ MetaOther
    \/ MetaError
    \/ \E k \in 1..Len(subs.types), info \in BrowserDescriptors : TypeResolved(k, info)
    \/ \E k \in 1..Len(subs.types), n \in InstanceNames : TypeRemoved(k, n)
    \/ \E k \in 1..Len(subs.types) : TypeOther(k)
    \/ \E k \in 1..Len(subs.types) : TypeDisconnected(k)
    \/ BrowserSend
    \/ MuxCancelled /\ UNCHANGED subs
    \/ BridgeRecv
    \/ BridgeSend
    \/ BridgeReply
    \/ BridgeCancelled
    \/ ActorUpsert("none")
    \/ ActorMarkDead("none")
    \/ Cancel

SpecBrowser == Init /\ [][NextBrowser]_vars

----------------------------------------------------------------------------
\* The select of cache_manager::run over an unbounded run: events keep
\* arriving, the interval keeps elapsing.  No history is kept here, and of the
\* cache thread only what the loop waits for: that it takes each command and
\* replies.

\* events the multiplexer delivers in this development
TimerEvents ==
    {Event("Resolved", BaseEntry(NameA, StartTime)), Event("Removed", NameA)}

\* a select that takes the tick branch only when no event is waiting
TickBranchAfterEvents == timer = "elapsed" /\ events = <<>>

\* maintenance_interval.tick() is ready
TickBranchReady == timer = "elapsed"

\* the interval's period has passed
TimerElapses ==
    /\ timer = "waiting"
    /\ timer' = "elapsed"
    /\ UNCHANGED <<mux, events, bridge, cmdq, readers, replies, actor, main, hist,
                   subs, actorVars, hashVars>>

\* the multiplexer's tx.send(event).await completes
MuxDelivers(event) ==
    /\ mux.pc # "done"
    /\ bridge.pc # "done"
    /\ Len(events) < EventCap
    /\ events' = Append(events, event)
    /\ UNCHANGED <<mux, bridge, cmdq, readers, replies, actor, main, hist, subs,
                   timer, actorVars, hashVars>>

\* run_browser returns (its meta browse failed, or its loop ended): the
\* sender is dropped and the event channel closes
MuxReturns ==
    /\ mux.pc # "done"
    /\ mux' = [mux EXCEPT !.pc = "done"]
    /\ UNCHANGED <<events, bridge, cmdq, readers, replies, actor, main, hist, subs,
                   timer, actorVars, hashVars>>

\* run, rx.recv() arm; the branch is disabled while rx.recv() has no event
\* to give, also once the channel is closed and drained
LoopRecv ==
    /\ bridge.pc = "select"
    /\ events # <<>>
    /\ LET event == Head(events)
           kind == IF event.kind = "Resolved" THEN "Upsert" ELSE "MarkDead"
       IN  bridge' = [pc |-> "send", cmd |-> <<Command(kind, event.arg, "bridge")>>]
    /\ events' = Tail(events)
    /\ UNCHANGED <<mux, cmdq, readers, replies, actor, main, hist, subs, timer,
                   actorVars, hashVars>>

\* run, maintenance_interval.tick() arm: the tick is taken
LoopTick ==
    /\ bridge.pc = "select"
    /\ TickBranchReady
    /\ bridge' = [pc |-> "send", cmd |-> <<Command("Maintenance", ConfigSweeps, "bridge")>>]
    /\ timer' = "waiting"
    /\ UNCHANGED <<mux, events, cmdq, readers, replies, actor, main, hist, subs,
                   actorVars, hashVars>>

\* the cache thread takes the oldest command and sends its reply
ActorServes(result) ==
    /\ Receiving
    /\ cmdq # <<>>
    /\ ActorReply(Head(cmdq), result)
    /\ cmdq' = Tail(cmdq)
    /\ UNCHANGED <<mux, events, bridge, readers, actor, main, hist, subs, timer,
                   actorVars, hashVars>>

NextTimer ==
    \/ TimerElapses
    \/ \E event \in TimerEvents : MuxDelivers(event)
    \/ MuxReturns
    \/ LoopRecv
    \/ LoopTick
    \/ BridgeSend
    \/ BridgeReply
    \/ BridgeCancelled
    \/ \E result \in {Ok("unit"), StoreError} : ActorServes(result)
    \/ Cancel

\* tokio's select! starts its poll at a random branch, so a branch that is
\* ready at infinitely many selects is taken; the runtime polls a task whose
\* send or reply can complete, and the cache thread sits in blocking_recv
FairTimer ==
    /\ SF_vars(LoopTick)
    /\ WF_vars(BridgeSend)
    /\ WF_vars(BridgeReply)
    /\ WF_vars(\E result \in {Ok("unit"), StoreError} : ActorServes(result))

SpecTimer == Init /\ [][NextTimer]_vars /\ FairTimer

----------------------------------------------------------------------------
\* CacheHandle's requests around the end of the cache thread.  Any holder of
\* a handle can call shutdown() at any time; once the thread has left its loop
\* its closure returns and the receiver is dropped with whatever the queue
\* holds, and with it the reply sender inside each queued command.

\* self.tx.send(..).await? on a channel whose receiver is gone
SendFailed == [ok |-> FALSE, err |-> "send failed"]

\* rx.await? on a reply channel whose sender was dropped
ReplyDropped == [ok |-> FALSE, err |-> "reply dropped"]

\* Shutdown is in the queue or has been dequeued
ShutdownSent ==
    \/ \E k \in 1..Len(cmdq) : cmdq[k].kind = "Shutdown"
    \/ actor.pc \in {"stopped", "exited"}

\* CacheHandle::shutdown, from any holder of the handle
HandleShutdown ==
    /\ ~ShutdownSent
    /\ Len(cmdq) < CommandCap
    /\ cmdq' = Append(cmdq, Command("Shutdown", <<>>, "main"))
    /\ UNCHANGED <<mux, events, bridge, readers, replies, actor, main, hist, subs,
                   timer, actorVars, hashVars>>

\* a queue dropped with the reply channels of its commands left open
KeepQueued(q, rs) == rs

\* the reply channels after the queue q is dropped: the sender inside each
\* queued command goes with it
DropQueued(q, rs) ==
    [x \in Senders |->
       IF \E k \in 1..Len(q) : q[k].from = x THEN <<ReplyDropped>> ELSE rs[x]]

\* the thread's closure returns after the loop: rx is dropped
ActorExits ==
    /\ actor.pc = "stopped"
    /\ actor' = [actor EXCEPT !.pc = "exited"]
    /\ replies' = DropQueued(cmdq, replies)
    /\ cmdq' = <<>>
    /\ UNCHANGED <<mux, events, bridge, readers, main, hist, subs, timer, actorVars,
                   hashVars>>

\* a handler calls get_all / get_by_type / get_one: the command is queued,
\* or the send fails because the receiver is gone
Request(r, kind, arg) ==
    /\ readers[r] = "idle"
    /\ hist.issued < MaxCmds
    /\ IF actor.pc = "exited"
       THEN /\ cmdq' = cmdq
            /\ replies' = [replies EXCEPT ![r] = <<SendFailed>>]
       ELSE /\ Len(cmdq) < CommandCap
            /\ cmdq' = Append(cmdq, Command(kind, arg, r))
            /\ replies' = replies
    /\ readers' = [readers EXCEPT ![r] = "await"]
    /\ hist' = [hist EXCEPT !.issued = @ + 1]
    /\ UNCHANGED <<mux, events, bridge, actor, main, subs, timer, actorVars, hashVars>>

\* the loop's send while the receiver is there
HandleSend == actor.pc # "exited" /\ BridgeSend

\* the loop's send fails because the receiver is gone: the error is logged
BridgeSendFails ==
    /\ bridge.pc = "send"
    /\ actor.pc = "exited"
    /\ bridge' = [pc |-> "select", cmd |-> <<>>]
    /\ UNCHANGED <<mux, events, cmdq, readers, replies, actor, main, hist, subs,
                   timer, actorVars, hashVars>>

\* the arms of the cache thread; a write and a read can fail in the store
ActorArm ==
    \/ ActorUpsert("none")
    \/ \E f \in {"none", "store"} : ActorMarkDead(f)
    \/ ActorGetAll("none")
    \/ ActorGetByType("none")
    \/ \E f \in {"none", "store"} : ActorGetOne(f)
    \/ ActorMaintenanceStale("none")
    \/ ActorMaintenancePrune("none")
    \/ ActorShutdown

NextRequests ==
    \/ \E event \in TimerEvents : MuxDelivers(event)
    \/ BridgeRecv
    \/ BridgeTick
    \/ HandleSend
    \/ BridgeSendFails
    \/ BridgeReply
    \/ Request("get_services", "GetAll", <<>>)
    \/ Request("get_services", "GetByType", "_http._tcp")
    \/ Request("get_service", "GetOne", NameB)
    \/ \E r \in Readers : ReaderReply(r)
    \/ ActorArm
    \/ ActorExits
    \/ HandleShutdown

\* the cache thread is a thread of its own, blocked only in blocking_recv;
\* the runtime polls a task whose send or reply can complete, and a sender
\* waiting for room is served in turn
FairRequests ==
    /\ WF_vars(ActorArm)
    /\ WF_vars(ActorExits)
    /\ SF_vars(HandleSend)
    /\ WF_vars(BridgeSendFails)
    /\ WF_vars(BridgeReply)
    /\ \A r \in Readers : WF_vars(ReaderReply(r))

SpecRequests == Init /\ [][NextRequests]_vars /\ FairRequests

----------------------------------------------------------------------------
\* Shutdown as main runs it: ctrl_c, cancel.cancel(), the join of the three
\* tasks, then cache_handle.shutdown().  Discovery goes on without bound until
\* the multiplexer takes its cancel branch; no history is kept, and of the
\* cache thread's arms only that each takes its command and replies.

\* run_browser, a per-type arm with an event to send: the arm reaches
\* tx.send(event).await
MuxYields(event) ==
    /\ mux.pc = "select"
    /\ mux' = [mux EXCEPT !.pc = "send", !.ev = <<event>>]
    /\ UNCHANGED <<events, bridge, cmdq, readers, replies, actor, main, hist, subs,
                   timer, actorVars, hashVars>>

\* the cache thread takes the oldest command, which is not Shutdown, and
\* sends its reply
ActorServesCommand(result) ==
    /\ cmdq # <<>>
    /\ Head(cmdq).kind # "Shutdown"
    /\ ActorServes(result)

NextShutdown ==
    \/ \E event \in TimerEvents : MuxYields(event)
    \/ MuxSend /\ UNCHANGED subs
    \/ MuxCancelled /\ UNCHANGED subs
    \/ TimerElapses
    \/ LoopRecv
    \/ LoopTick
    \/ BridgeSend
    \/ BridgeReply
    \/ BridgeCancelled
    \/ ReaderRequest("get_services", "GetAll", <<>>)
    \/ ReaderRequest("get_service", "GetOne", NameB)
    \/ \E r \in Readers : ReaderReply(r)
    \/ \E result \in {Ok("unit"), StoreError} : ActorServesCommand(result)
    \/ ActorShutdown
    \/ ActorExits
    \/ Cancel
    \/ MainShutdown

\* select! starts its poll at a random branch, so the cancel branch, ready at
\* every select after cancellation, is taken; a send on a bounded channel is
\* served in order once there is room; the runtime polls a task whose send or
\* reply can complete, main is polled once its join can complete, and the
\* cache thread sits in blocking_recv.  Nothing obliges ctrl_c to arrive.
FairShutdown ==
    /\ SF_vars(MuxCancelled /\ UNCHANGED subs)
    /\ SF_vars(BridgeCancelled)
    /\ WF_vars(MuxSend /\ UNCHANGED subs)
    /\ SF_vars(BridgeSend)
    /\ WF_vars(BridgeReply)
    /\ \A r \in Readers : WF_vars(ReaderReply(r))
    /\ WF_vars(\E result \in {Ok("unit"), StoreError} : ActorServesCommand(result))
    /\ WF_vars(ActorShutdown)
    /\ WF_vars(ActorExits)
    /\ WF_vars(MainShutdown)

SpecShutdown == Init /\ [][NextShutdown]_vars /\ FairShutdown

----------------------------------------------------------------------------
\* The two sweeps of one Maintenance command and the clock.  mark_stale and
\* prune_stale each read Utc::now() for their cutoff, so the prune sweep can
\* see a later clock than the staleness sweep of the same command.

\* ticks the clock may advance between the two sweeps of one command
MaxStall == 2

\* the clock advances while the cache thread is between the two sweeps
Stall ==
    /\ actor.pc = "prune"
    /\ now < hist.deq[Len(hist.deq)].t + MaxStall
    /\ now' = now + 1
    /\ UNCHANGED <<db, hash_value, hash_version, ncmds, last, hashVars, pipeVars>>

InitStall ==
    /\ db \in SweepCatalogs
    /\ hash_value \in {compute_hash(services) : services \in get_all_services(db)}
    /\ hash_version = 0
    /\ now = StartTime
    /\ ncmds = 0
    /\ last = [op |-> "none"]
    /\ hL = <<>>
    /\ hM = <<>>
    /\ hOp = "none"
    /\ hashL = compute_hash(<<>>)
    /\ hashM = compute_hash(<<>>)
    /\ PipeInit

NextStall ==
    \/ \E sweeps \in MaintenanceArgs : BridgeTickWith(sweeps)
    \/ BridgeSend
    \/ BridgeReply
    \/ \E f \in {"none", "store"} : ActorMaintenanceStale(f)
    \/ Stall
    \/ \E f \in {"none", "prune"} : ActorMaintenancePrune(f)

SpecStall == InitStall /\ [][NextStall]_vars

----------------------------------------------------------------------------
\* Two runs from one catalog: the same two entries upserted in either order.
\* hL and hashL hold the catalog and the published value of the run that
\* upserts `first` first, hM and hashM those of the run that upserts it second.

\* the Upsert arm as a function: the catalogs and published values it can
\* leave behind, starting from catalog d with `published` on the channel
UpsertArm(d, published, entry) ==
    UNION {LET r == upsert_service(d, entry, old, FALSE)
           IN  {[db |-> r.db, hash |-> h] :
                  h \in (IF UpsertRecomputes(r.res)
                         THEN {compute_hash(services) :
                                 services \in get_all_services(r.db)}
                         ELSE {published})} :
           old \in ExistingReadings(d, entry.instance_name)}

\* two Upsert commands handled one after the other
UpsertTwo(d, published, first, second) ==
    UNION {UpsertArm(o.db, o.hash, second) : o \in UpsertArm(d, published, first)}

OrderEntries(t) == ResolvedEntries(t) \cup StoreEntries(t)

SubmitInBothOrders(first, second) ==
    /\ hOp = "none"
    /\ first.instance_name # second.instance_name
    /\ \E l \in UpsertTwo(db, hash_value, first, second),
          m \in UpsertTwo(db, hash_value, second, first) :
         /\ hL' = l.db
         /\ hashL' = l.hash
         /\ hM' = m.db
         /\ hashM' = m.hash
    /\ hOp' = "orders"
    /\ UNCHANGED <<actorVars, pipeVars>>

NextOrder ==
    \/ \E first \in OrderEntries(now), second \in OrderEntries(now) :
         SubmitInBothOrders(first, second)
    \/ hOp = "none" /\ Tick

SpecOrder == Init /\ [][NextOrder]_vars

----------------------------------------------------------------------------
\* Fingerprint properties (checked under SpecHash).

\* C5 as stated: for every entry list and every permutation of it,
\* compute_hash gives the same digest.
C5_PermutationAnyList == hOp = "permuted" => hashM = hashL

\* C5, amended: for every entry list whose instance_names are pairwise
\* distinct and every permutation of it, compute_hash gives the same digest.
C5_PermutationUniqueNames ==
    (hOp = "permuted" /\ UniqueNames(hL)) => hashM = hashL

\* two entries under distinct names, swapped, the given list not in name order
C5_Witness ==
    /\ hOp = "permuted"
    /\ UniqueNames(hL)
    /\ Len(hL) = 2
    /\ hM = <<hL[2], hL[1]>>
    /\ StrLess(hL[2].instance_name, hL[1].instance_name)
    /\ hashM = hashL

\* C6: changing only first_seen, last_seen or ttl of an entry leaves
\* compute_hash of the list unchanged.
C6_FreshnessIgnored == hOp = "freshness" => hashM = hashL

\* an entry of a two-entry list got another first_seen, last_seen and ttl
C6_Witness ==
    /\ hOp = "freshness"
    /\ Len(hL) = 2
    /\ \E i \in 1..Len(hL) :
         /\ hM[i].first_seen # hL[i].first_seen
         /\ hM[i].last_seen # hL[i].last_seen
         /\ hM[i].ttl # hL[i].ttl
    /\ hashM = hashL

\* C7: in a list with pairwise distinct instance_names, changing one of
\* service_type, hostname, addresses, port, txt or alive of an entry changes
\* compute_hash of the list (the digest taken as injective).
C7_ContentChangesHash ==
    (hOp = "content" /\ UniqueNames(hL)) => hashM # hashL

\* the port of the second entry of a two-entry list changed
C7_Witness ==
    /\ hOp = "content"
    /\ UniqueNames(hL)
    /\ Len(hL) = 2
    /\ hM[2].port # hL[2].port
    /\ hM[1] = hL[1]
    /\ hashM # hashL

\* C8: two entry lists equal in every projected field, txt compared as a
\* key -> value mapping whatever the iteration order of the map, have the
\* same digest.
C8_TxtOrderIrrelevant == hOp = "rebuilt" => hashM = hashL

----------------------------------------------------------------------------
\* Cache actor properties (checked under Spec).

\* the digests compute_hash can give for the catalog as it is now
CatalogHashes(d) == {compute_hash(services) : services \in get_all_services(d)}

\* the step processes a command of the given kind
Processed(op) == ncmds' # ncmds /\ last'.op = op

FingerprintKept == hash_value' = hash_value /\ hash_version' = hash_version

\* C1: whenever the actor is between commands, whether the last command's
\* store operations succeeded or failed, the watch channel holds compute_hash
\* of the full current catalog.
C1_FingerprintMatchesCatalog == hash_value \in CatalogHashes(db)

\* C2: an Upsert that returns changed = false leaves the watch channel's
\* value and version as they were.
C2_UnchangedUpsertKeepsFingerprint ==
    [][(Processed("Upsert") /\ last'.reply.ok /\ last'.reply.val = FALSE)
          => FingerprintKept]_vars

\* a row is inserted, which publishes, and upserted again unchanged a tick
\* later: the fingerprint is still the first one
C2_Witness ==
    /\ last.op = "Upsert"
    /\ last.reply.ok /\ last.reply.val = FALSE
    /\ ncmds = 2
    /\ hash_version = 1
    /\ \E i \in 1..Len(db) : db[i].first_seen # db[i].last_seen
    /\ hash_value \in CatalogHashes(db)

\* C3: a Maintenance command whose staleness sweep and prune sweep both
\* affect zero rows neither recomputes nor publishes the fingerprint.
C3_NoopMaintenanceKeepsFingerprint ==
    [][(Processed("Maintenance") /\ last'.reply.ok
           /\ last'.marked = 0 /\ last'.pruned = 0)
          => FingerprintKept]_vars

\* the stored entry is what an earlier resolution of descriptor info left:
\* alive, with the same type, hostname, port, properties and IPv6 address set
ResolvedBefore(stored, info) ==
    /\ stored.alive
    /\ stored.ttl = DefaultTtl
    /\ stored.service_type = info.ty
    /\ stored.hostname = info.hostname
    /\ stored.port = info.port
    /\ TxtEq(stored.txt, info.properties)
    /\ Range(stored.addresses) = Range(Ipv6Only(info.addresses))

\* C4: re-resolving a service whose descriptor is unchanged (its IPv6
\* addresses delivered in any order) gives an Upsert that reports
\* changed = false and leaves the published fingerprint as it was.
C4_UnchangedResolveIsNoop ==
    [][\A info \in Descriptors :
         \A c \in convert_service_info(info, now) :
           \A old \in ExistingReadings(db, info.fullname) :
             (/\ c # <<>>
              /\ old # <<>>
              /\ ResolvedBefore(old[1], info)
              /\ Upsert(c[1], old, "none"))
             => (last'.reply.val = FALSE /\ FingerprintKept)]_vars

----------------------------------------------------------------------------
\* Store properties (checked under SpecUpsert).

\* the stored row differs from the entry in a compared column
RowDiffers(row, entry) ==
    \/ row.service_type # entry.service_type
    \/ row.hostname # entry.hostname
    \/ row.addresses[2] # entry.addresses
    \/ row.port # entry.port
    \/ Range(row.txt[2]) # Range(entry.txt)
    \/ row.ttl # entry.ttl
    \/ (row.alive = 1) # entry.alive

\* the step is a successful upsert_service
Upserted == Processed("upsert_service") /\ last'.reply.ok

\* C9: a successful Upsert(entry) returns true exactly when no row with
\* entry.instance_name exists or the existing row differs from the entry in
\* one of service_type, hostname, addresses, port, txt, ttl, alive.
C9_ChangedIffRowDiffers ==
    [][Upserted =>
         LET entry == last'.entry
         IN  last'.reply.val =
               (\/ RowIndex(db, entry.instance_name) = {}
                \/ \E i \in RowIndex(db, entry.instance_name) : RowDiffers(db[i], entry))]_vars

\* a row written at StartTime was upserted again one tick later with only
\* first_seen and last_seen different, and the reply was false
C9_Witness ==
    /\ last.op = "upsert_service"
    /\ last.reply.ok /\ last.reply.val = FALSE
    /\ last.entry.first_seen = StartTime + 1
    /\ Len(db) = 1
    /\ db[1].first_seen = to_rfc3339(StartTime)
    /\ db[1].last_seen = to_rfc3339(StartTime + 1)

\* C10: after a successful Upsert(entry) the row of entry.instance_name reads
\* back with last_seen, ttl and the content fields of the entry; first_seen is
\* the entry's when the row is new and the stored one otherwise; every other
\* row is as before.
C10_UpsertWritesRow ==
    [][Upserted =>
         LET entry == last'.entry
             before == RowIndex(db, entry.instance_name)
             after == RowIndex(db', entry.instance_name)
         IN  /\ Cardinality(after) = 1
             /\ \A i \in after : \A e \in row_to_entry(db'[i]) :
                  /\ e.last_seen = entry.last_seen
                  /\ e.ttl = entry.ttl
                  /\ e.service_type = entry.service_type
                  /\ e.hostname = entry.hostname
                  /\ e.addresses = entry.addresses
                  /\ e.port = entry.port
                  /\ TxtEq(e.txt, entry.txt)
                  /\ e.alive = entry.alive
                  /\ e.first_seen =
                       IF before = {} THEN entry.first_seen
                       ELSE parse_from_rfc3339(db[CHOOSE j \in before : TRUE].first_seen)
             /\ Len(db') = Len(db) + (IF before = {} THEN 1 ELSE 0)
             /\ \A j \in 1..Len(db) :
                  db[j].instance_name # entry.instance_name => db'[j] = db[j]]_vars

\* beside a persisted row, a row was upserted again one tick after its
\* creation with another port: it kept first_seen and took the rest
C10_Witness ==
    /\ last.op = "upsert_service"
    /\ last.reply.ok /\ last.reply.val = TRUE
    /\ last.entry.first_seen = StartTime + 1
    /\ Len(db) = 2
    /\ db[2].first_seen = to_rfc3339(StartTime)
    /\ db[2].last_seen = to_rfc3339(StartTime + 1)
    /\ db[2].port = 9090
    /\ db[1] = EntryToRow(BaseEntry(NameB, StartTime - 1))

----------------------------------------------------------------------------
\* Sweep properties (checked under SpecSweep).

\* the alive flag of every row, by instance_name
AliveFlags(d) == {<<d[i].instance_name, d[i].alive>> : i \in 1..Len(d)}

\* the time a row was last seen
LastSeen(row) == parse_from_rfc3339(row.last_seen)

\* C11: a successful MarkDead(name) leaves the row of that name with
\* alive = false and creates no row; a second MarkDead(name) succeeds when
\* the store does and leaves every alive flag and the set of rows as after
\* the first.
C11_MarkDeadIdempotent ==
    [][(Processed("mark_dead") /\ last'.reply.ok) =>
         /\ \A i \in RowIndex(db', last'.name) : db'[i].alive = 0
         /\ [i \in 1..Len(db') |-> db'[i].instance_name]
              = [i \in 1..Len(db) |-> db[i].instance_name]
         /\ \A i \in 1..Len(db) :
              db[i].instance_name # last'.name => db'[i] = db[i]
         /\ (last.op = "mark_dead" /\ last.reply.ok /\ last.name = last'.name)
              => AliveFlags(db') = AliveFlags(db)]_vars

\* a row alive beside another was marked dead twice, a tick apart
C11_Witness ==
    /\ last.op = "mark_dead" /\ last.reply.ok
    /\ last.name = NameA
    /\ ncmds = 2
    /\ Len(db) = 2
    /\ \E i \in RowIndex(db, NameA) :
         db[i].alive = 0 /\ db[i].last_seen = to_rfc3339(StartTime + 1)
    /\ \E i \in RowIndex(db, NameB) :
         db[i].alive = 1 /\ db[i].last_seen = to_rfc3339(StartTime - 1)

\* C12: a successful mark_stale(T) clears alive on exactly the rows that are
\* alive and were last seen strictly before now - T, returns their number,
\* and leaves every other row and every last_seen as it was.
C12_MarkStaleExact ==
    [][(Processed("mark_stale") /\ last'.reply.ok) =>
         LET hit == {i \in 1..Len(db) :
                        db[i].alive = 1 /\ LastSeen(db[i]) < now - last'.secs}
         IN  /\ Len(db') = Len(db)
             /\ \A i \in 1..Len(db) :
                  db'[i] = IF i \in hit THEN [db[i] EXCEPT !.alive = 0] ELSE db[i]
             /\ last'.reply.val = Cardinality(hit)]_vars

\* at tick 10 with T = 1, of two rows alive the one last seen at 8 was marked
\* and the one last seen at 9 (not strictly older than the cutoff) was not
C12_Witness ==
    /\ last.op = "mark_stale" /\ last.reply.ok
    /\ last.secs = 1 /\ last.reply.val = 1
    /\ now = StartTime + 1
    /\ Len(db) = 2
    /\ db[1].alive = 0 /\ db[1].last_seen = to_rfc3339(StartTime - 1)
    /\ db[2].alive = 1 /\ db[2].last_seen = to_rfc3339(StartTime)

\* C13: a successful prune(T) deletes exactly the rows last seen strictly
\* before now - T, alive or not, returns their number, and leaves the
\* remaining rows as they were, in their order.
C13_PruneExact ==
    [][(Processed("prune_stale") /\ last'.reply.ok) =>
         LET hit == {i \in 1..Len(db) : LastSeen(db[i]) < now - last'.secs}
         IN  /\ db' = SelectSeq(db, LAMBDA row : LastSeen(row) >= now - last'.secs)
             /\ last'.reply.val = Cardinality(hit)
             /\ Len(db') = Len(db) - Cardinality(hit)]_vars

\* at tick 10 with T = 1, a row alive and last seen at 8 was deleted and a
\* dead row last seen at 9 was kept
C13_Witness ==
    /\ last.op = "prune_stale" /\ last.reply.ok
    /\ last.secs = 1 /\ last.reply.val = 1
    /\ now = StartTime + 1
    /\ ncmds = 1
    /\ Len(db) = 1
    /\ db[1].alive = 0 /\ db[1].last_seen = to_rfc3339(StartTime)

----------------------------------------------------------------------------
\* Maintenance (checked under Spec).

----------------------------------------------------------------------------
\* Admission (checked under SpecHandle and SpecDiscovery).

Ipv6Set(info) == {a[2] : a \in {b \in Range(info.addresses) : b[1] = "V6"}}

\* C16: resolving a descriptor without an IPv6 address emits no event and
\* leaves the event channel as it was, so that no Upsert for it is ever
\* dequeued by the cache actor; resolving a descriptor with addresses of both
\* families emits a Resolved entry whose addresses are exactly its IPv6 ones.
C16_OnlyIpv6Resolved ==
    [][/\ \A info \in PipelineDescriptors :
            MuxResolved(info) =>
              IF Ipv6Set(info) = {}
              THEN /\ mux'.pc = "select"
                   /\ mux'.ev = <<>>
                   /\ hist'.emitted = hist.emitted
                   /\ events' = events
              ELSE /\ mux'.pc = "send"
                   /\ mux'.ev[1].kind = "Resolved"
                   /\ Range(mux'.ev[1].arg.addresses) = Ipv6Set(info)
                   /\ Len(mux'.ev[1].arg.addresses) = Cardinality(Ipv6Set(info))
       /\ \A k \in 1..Len(hist'.deq) :
            hist'.deq[k].kind = "Upsert" =>
              /\ hist'.deq[k].arg.addresses # <<>>
              /\ \A a \in Range(hist'.deq[k].arg.addresses) : a \in V6Addrs]_vars

\* a descriptor with both families was resolved and its entry stored with the
\* IPv6 address alone; after it a descriptor with an IPv4 address only was
\* resolved, and nothing more was emitted
C16_Witness ==
    /\ mux.info = <<[BaseDescriptor(NameA) EXCEPT
                       !.addresses = << <<"V4", "10.0.0.1">> >>]>>
    /\ mux.pc = "select"
    /\ Len(hist.emitted) = 1
    /\ hist.applied = hist.emitted
    /\ \E i \in RowIndex(db, NameA) : db[i].addresses = to_json(<<"fd00::2">>)

----------------------------------------------------------------------------
\* The event channel (checked under SpecDiscovery).

\* the event the cache manager loop has taken and the actor has not executed
BridgeHeld ==
    IF bridge.pc = "send" \/ (bridge.pc = "await" /\ cmdq # <<>>)
    THEN <<Event(IF bridge.cmd[1].kind = "Upsert" THEN "Resolved" ELSE "Removed",
                 bridge.cmd[1].arg)>>
    ELSE <<>>

\* every emitted event, in emission order, is executed, held by the loop, in
\* the channel, or in the multiplexer's suspended send: none lost, none twice
EventsConserved ==
    hist.emitted = hist.applied \o BridgeHeld \o events
                     \o (IF mux.pc = "send" THEN mux.ev ELSE <<>>)

----------------------------------------------------------------------------
\* The command queue (checked under SpecCommands).

\* the step dequeues a command
Dequeues == Len(hist'.deq) = Len(hist.deq) + 1

\* what a Get command finds in catalog d
Found(d, c) ==
    CASE c.kind = "GetAll" -> get_all_services(d)
      [] c.kind = "GetByType" -> get_services_by_type(d, c.arg)
      [] c.kind = "GetOne" -> get_service(d, c.arg)

ShutdownDequeued == \E k \in 1..Len(hist.deq) : hist.deq[k].kind = "Shutdown"

\* C18: when the cache actor dequeues Shutdown, every command dequeued before
\* it has been executed and its reply received, and the loop ends; from then
\* on no command is dequeued and the catalog and the published fingerprint
\* stay as they are.
C18_ShutdownStopsActor ==
    [][/\ (Dequeues /\ Head(cmdq).kind = "Shutdown") =>
            /\ actor.pc = "recv"
            /\ bridge.pc = "done"
            /\ \A r \in Readers : readers[r] = "idle"
            /\ \A x \in Senders : replies[x] = <<>>
            /\ ncmds = Len(hist.deq)
            /\ actor'.pc = "stopped"
       /\ ShutdownDequeued =>
            /\ actor.pc = "stopped"
            /\ UNCHANGED <<db, hash_value, hash_version, ncmds, actor, replies>>
            /\ hist'.deq = hist.deq]_vars

\* a Maintenance and a Get were executed, then Shutdown was dequeued
C18_Witness ==
    /\ actor.pc = "stopped"
    /\ main = "exited"
    /\ Len(hist.deq) = 3
    /\ hist.deq[1].kind = "Maintenance"
    /\ hist.deq[2].kind = "GetAll"
    /\ hist.deq[3].kind = "Shutdown"
    /\ cmdq = <<>>

\* the command the cache actor has in hand during the step
InHand == IF actor.pc = "prune" THEN actor.cmd[1] ELSE Head(cmdq)

\* C19: a reply, and so the error of a command whose store operation failed,
\* is delivered on the reply channel of that command's sender and on no
\* other; after an error the loop is back at blocking_recv, and it ends only
\* by dequeuing Shutdown.
C19_ErrorsStayWithTheirCommand ==
    [][/\ \A x \in Senders :
            (replies'[x] # replies[x] /\ replies'[x] # <<>>) =>
              /\ x = InHand.from
              /\ \A y \in Senders \ {x} : replies'[y] = replies[y]
              /\ ~replies'[x][1].ok => actor'.pc = "recv"
       /\ (actor'.pc = "stopped" /\ actor.pc # "stopped") =>
            (cmdq # <<>> /\ Head(cmdq).kind = "Shutdown")]_vars

\* a command failed in the store and its sender holds the error; the next
\* command, from another sender, was executed and answered
C19_Witness ==
    /\ Len(hist.deq) = 2
    /\ hist.deq[1].f = "store"
    /\ hist.deq[2].f = "none"
    /\ hist.deq[1].from # hist.deq[2].from
    /\ replies[hist.deq[1].from] = <<StoreError>>
    /\ replies[hist.deq[2].from] # <<>>
    /\ replies[hist.deq[2].from][1].ok
    /\ actor.pc = "recv"

----------------------------------------------------------------------------
\* Frame properties of the commands (checked under SpecHandle).

\* the instance_names present in a catalog
Names(d) == {d[i].instance_name : i \in 1..Len(d)}

\* C21: a row that is dead before a command and alive after it was upserted
\* by that command: the command is an Upsert that reported a change and
\* touched no other row.  MarkDead, Maintenance and the Get commands never
\* turn a dead row alive.
C21_OnlyUpsertRevives ==
    [][\A i \in 1..Len(db) :
         \A j \in RowIndex(db', db[i].instance_name) :
           (db[i].alive = 0 /\ db'[j].alive = 1) =>
             /\ Processed("Upsert")
             /\ last'.reply.ok /\ last'.reply.val = TRUE
             /\ Len(db') = Len(db)
             /\ \A k \in 1..Len(db) : k # i => db'[k] = db[k]]_vars

\* the persisted row was marked by a Maintenance command whose prune sweep
\* failed (nothing published), then upserted with the content it had: the
\* reply reports a change, the row is alive and keeps its first_seen
C21_Witness ==
    /\ last.op = "Upsert"
    /\ last.reply.ok /\ last.reply.val = TRUE
    /\ ncmds = 2
    /\ hash_version = 1
    /\ now = StartTime
    /\ db = <<[EntryToRow(BaseEntry(NameB, StartTime - 1)) EXCEPT
                 !.last_seen = to_rfc3339(StartTime)]>>

\* C22: the set of instance_names present shrinks only in a Maintenance
\* command, by the rows its prune sweep deleted; Upsert, MarkDead, the Get
\* commands and the staleness sweep never remove a name, and the Get commands
\* change neither the catalog nor the published fingerprint.
C22_OnlyPruneRemoves ==
    [][/\ ~(Names(db) \subseteq Names(db')) => Processed("Maintenance")
       /\ Processed("Maintenance") =>
            /\ Names(db') \subseteq Names(db)
            /\ Cardinality(Names(db)) - Cardinality(Names(db')) = last'.pruned
       /\ (Processed("GetAll") \/ Processed("GetByType") \/ Processed("GetOne")) =>
            (db' = db /\ FingerprintKept)]_vars

\* a Maintenance command marked a row alive and pruned nothing: the row is
\* still present; beside it a row was upserted
C22_Witness ==
    /\ last.op = "Maintenance" /\ last.reply.ok
    /\ last.marked = 1 /\ last.pruned = 0
    /\ ncmds = 2
    /\ Len(db) = 2
    /\ db[1].alive = 0
    /\ db[2].alive = 1

----------------------------------------------------------------------------
\* Order of submission (checked under SpecOrder).

\* C23: from the same catalog, upserting two entries of distinct names in
\* either order ends with the same published fingerprint.
C23_SubmissionOrderIrrelevant ==
    hOp = "orders" => hashL = hashM

----------------------------------------------------------------------------
\* Cancellation (checked under SpecDiscovery).

\* C24: once cancellation has fired, the multiplexer emits no further event
\* and the cache manager loop issues no further command; a send or a command
\* already under way may complete.
C24_NothingHandledAfterCancellation ==
    [][cancelled =>
         /\ hist'.emitted = hist.emitted
         /\ hist'.issued = hist.issued]_vars

----------------------------------------------------------------------------
\* Publication and reply (checked under Spec).

\* C29: when the reply of an Upsert that changed the catalog, of a successful
\* MarkDead or of a successful Maintenance is sent, the published fingerprint
\* is already one of the catalog the command left.
C29_PublishedBeforeReply ==
    [][((Processed("Upsert") /\ last'.reply.ok /\ last'.reply.val = TRUE)
        \/ (Processed("MarkDead") /\ last'.reply.ok)
        \/ (Processed("Maintenance") /\ last'.reply.ok)) =>
          hash_value' \in CatalogHashes(db')]_vars

----------------------------------------------------------------------------
\* The thresholds of Maintenance (checked under SpecStall).

\* the step is the prune sweep of the command in hand
Pruning == actor.pc = "prune" /\ actor'.pc # "prune"

\* every row the step deletes is dead in the catalog the step starts from
DeletedRowsAreDead ==
    \A i \in 1..Len(db) : db[i].instance_name \notin Names(db') => db[i].alive = 0

\* C30 as stated: if prune_after > stale_after, every row a Maintenance
\* command deletes has alive = false at the moment it is deleted.
C30_DeadWhenPruned ==
    [][(Pruning /\ actor.cmd[1].arg[2] > actor.cmd[1].arg[1]) =>
          DeletedRowsAreDead]_vars

\* C30, amended: if prune_after exceeds stale_after by at least the time the
\* clock advanced between the command's two sweeps, every row the command
\* deletes has alive = false at the moment it is deleted; a live row is
\* deleted unmarked only when prune_after - stale_after is less than that.
C30_DeadWhenPrunedInTime ==
    [][(Pruning /\ actor.cmd[1].arg[2] - actor.cmd[1].arg[1]
                     >= now - hist.deq[Len(hist.deq)].t) =>
          DeletedRowsAreDead]_vars

\* the only command so far, Maintenance(0, 1), ran its prune sweep one tick
\* after its staleness sweep and deleted a row that was alive at the start
C30_Witness ==
    /\ Len(hist.deq) = 1
    /\ hist.deq[1].kind = "Maintenance"
    /\ hist.deq[1].arg = <<0, 1>>
    /\ hist.deq[1].f = "none"
    /\ hist.deq[1].t2 = hist.deq[1].t + 1
    /\ actor.pc = "recv"
    /\ \E i \in 1..Len(hist.db0) :
         /\ hist.db0[i].alive = 1
         /\ hist.db0[i].instance_name \notin Names(db)

----------------------------------------------------------------------------
\* The subscriptions of the multiplexer (checked under SpecBrowser).

\* C25: a subscription whose receive has completed with a disconnect error is
\* never waited on again, the per-type subscriptions and the meta-subscription
\* alike: no receive of it is pending or in hand, and the select no longer
\* awaits the meta-subscription once its receive has failed.
C25_DisconnectedNeverAwaited ==
    /\ \A k \in subs.dropped : subs.pool[k] = 0 /\ subs.inhand # <<k>>
    /\ subs.metaFailed => subs.meta # "armed"

\* C26: no two subscriptions are ever opened for one service type, and the
\* announcement of a type already in browsed_types changes neither
\* browsed_types nor the subscriptions nor the pool.
C26_OneSubscriptionPerType ==
    [][/\ \A i, j \in 1..Len(subs'.types) :
            subs'.types[i] = subs'.types[j] => i = j
       /\ \A ty \in ServiceTypes :
            (subs'.seen = Append(subs.seen, ty) /\ ty \in subs.browsed) =>
              /\ subs'.browsed = subs.browsed
              /\ subs'.types = subs.types
              /\ subs'.pool = subs.pool
              /\ subs'.next_idx = subs.next_idx]_vars

\* one type was announced three times and then the other: two subscriptions
C26_Witness ==
    /\ subs.seen = <<"_http._tcp", "_http._tcp", "_http._tcp", "_ssh._tcp">>
    /\ subs.types = <<"_http._tcp", "_ssh._tcp">>
    /\ subs.pool = <<1, 1>>

\* receives of the subscriptions that are pending or in hand
RECURSIVE Sum(_)
Sum(counts) == IF counts = <<>> THEN 0 ELSE Head(counts) + Sum(Tail(counts))

\* C27: whenever the multiplexer is at its select, every subscription opened
\* and not disconnected has exactly one receive pending in the pool and a
\* disconnected one has none; the receives pending or in hand never outnumber
\* the distinct types seen.
C27_OnePendingReceiveEach ==
    /\ mux.pc = "select" =>
         \A k \in 1..Len(subs.types) :
            subs.pool[k] = IF k \in subs.dropped THEN 0 ELSE 1
    /\ Sum(subs.pool) + Len(subs.inhand) <= Cardinality(subs.browsed)

\* back at the select after a send that failed because the receiver of the
\* event channel was gone: the subscription still has its receive pending,
\* the other one, disconnected, has none
C27_Witness ==
    /\ mux.pc = "select"
    /\ subs.sendFailed
    /\ subs.types = <<"_http._tcp", "_ssh._tcp">>
    /\ subs.dropped = {2}
    /\ subs.pool = <<1, 0>>
    /\ subs.handled = 4

----------------------------------------------------------------------------
\* The maintenance tick (checked under SpecTimer).

\* the loop holds a Maintenance command at the given position
HoldsMaintenance(pc) ==
    bridge.pc = pc /\ bridge.cmd # <<>> /\ bridge.cmd[1].kind = "Maintenance"

\* C28: under fair selection among the ready branches, every elapsed tick is
\* eventually taken by the tick arm, unless the loop has ended on
\* cancellation, and the Maintenance command the arm builds is eventually
\* sent; this with events arriving all the time and with the event channel
\* closed.
C28_TickLeadsToMaintenance ==
    /\ (timer = "elapsed") ~> (timer = "waiting" \/ bridge.pc = "done")
    /\ HoldsMaintenance("send") ~> HoldsMaintenance("await")

\* a Maintenance command has been sent for a tick while an event was waiting
\* in the channel and the multiplexer was still running
C28_Witness ==
    /\ HoldsMaintenance("await")
    /\ timer = "waiting"
    /\ events # <<>>
    /\ mux.pc # "done"
    /\ main = "serving"

----------------------------------------------------------------------------
\* Completion of requests (checked under SpecRequests).

\* both tasks have run to their end
TasksExited == mux.pc = "done" /\ bridge.pc = "done"

\* C32: shutdown terminates in order: once cancellation is triggered the
\* multiplexer and the cache manager loop both end, wherever they were, and
\* the cache thread then ends; Shutdown is in the command channel, or taken,
\* only when both tasks have ended; and until the thread has ended some step
\* of the sequence can always be taken.
C32_ShutdownInOrder ==
    /\ cancelled ~> TasksExited
    /\ cancelled ~> (actor.pc = "exited")
    /\ [](ShutdownSent => TasksExited /\ main = "exited")
    /\ [](cancelled /\ actor.pc # "exited" => ENABLED <<NextShutdown>>_vars)

\* cancellation was triggered while the multiplexer is suspended on the full
\* event channel and the loop waits for the cache thread's reply
C32_Witness ==
    /\ main = "joining"
    /\ mux.pc = "send"
    /\ Len(events) = EventCap
    /\ bridge.pc = "await"
    /\ replies["bridge"] = <<>>

\* a caller is inside a CacheHandle method: a handler waiting for its reply,
\* or the loop suspended in its send or waiting for its reply
SomeCallerWaits ==
    \/ \E r \in Readers : readers[r] = "await"
    \/ bridge.pc \in {"send", "await"}

\* C31: every request completes: whenever some caller is inside a request, a
\* moment comes when none is, so no caller waits forever.  A reply arrives on a sender's channel either from the arm
\* that dequeued that sender's command, and then on no other channel, or as
\* an error once the cache thread has gone; a send fails only then.
C31_RequestsComplete ==
    /\ SomeCallerWaits ~> ~SomeCallerWaits
    /\ [][/\ \A x \in Senders :
               (replies'[x] # replies[x] /\ replies'[x] # <<>>) =>
                 IF replies'[x][1] \in {SendFailed, ReplyDropped}
                 THEN actor'.pc = "exited"
                 ELSE /\ actor.pc \in {"recv", "prune"}
                      /\ x = InHand.from
                      /\ \A y \in Senders \ {x} : replies'[y] = replies[y]
          /\ (bridge.pc = "send" /\ bridge'.pc = "select") => actor.pc = "exited"]_vars

\* the cache thread has gone: one handler's command was in the queue and its
\* reply channel was dropped, the other handler's send failed
C31_Witness ==
    /\ actor.pc = "exited"
    /\ replies["get_service"] = <<ReplyDropped>>
    /\ replies["get_services"] = <<SendFailed>>
    /\ readers["get_service"] = "await"
    /\ readers["get_services"] = "await"

====
